---- MODULE Spec2Model ----
(***************************************************************************)
(* MasalaScript: lexer, parser, analyzer and interpreter of the modular    *)
(* implementation (src/lexer.js, src/parser.js, src/analyzer.js,           *)
(* src/interpreter.js, src/tokens.js, src/masalascript.js), as one state   *)
(* machine that follows the calls of MasalaScript.run(source) on an        *)
(* instance: the token loop of Lexer.tokenize step by step, then the       *)
(* parser, the analyzer and the interpreter's statement loop.              *)
(*                                                                         *)
(* A source is a sequence of one-character strings; positions (start,      *)
(* current) are 0-based as in the code, so source.charAt(i) is source[i+1].*)
(* Numbers are exact rationals n/d (the programs of the model stay inside  *)
(* the range where IEEE-754 arithmetic is exact).                          *)
(***************************************************************************)
EXTENDS Integers, Sequences, FiniteSets, TLC

VARIABLES
    options,       \* MasalaScript.options: [skipAnalysis, maxIterations]
    source,        \* Lexer.source: the text given to run()
    phase,         \* position inside run(): "lex", "parse", "analyze", "execute", "done"
    start,         \* Lexer.start
    current,       \* Lexer.current
    line,          \* Lexer.line
    column,        \* Lexer.column
    startColumn,   \* Lexer.startColumn
    tokens,        \* Lexer.tokens / MasalaScript.tokens
    ast,           \* MasalaScript.ast (a sequence holding the Program node, or empty for null)
    analyzer,      \* Analyzer fields after analyze(): scopes, functions, currentFunction, errors
    envs,          \* heap of Environment objects: [values, parent]; envs[1] is Interpreter.globals
    funs,          \* heap of MasalaFunction objects: [declaration, closure]
    environment,   \* Interpreter.environment (index into envs)
    output,        \* Interpreter.output
    pc,            \* index of the next statement of Program.body in Interpreter.visitProgram
    result         \* the result objects that run() has returned on this instance, the newest first

vars == <<options, source, phase, start, current, line, column, startColumn, tokens, ast,
          analyzer, envs, funs, environment, output, pc, result>>

lexVars == <<start, current, line, column, startColumn, tokens>>
interpVars == <<envs, funs, environment, output, pc>>

(***************************************************************************)
(* Characters                                                              *)
(***************************************************************************)
NL == "\n"
TAB == "\t"
CR == "\r"
QUOTE == "\""
BACKSLASH == "\\"
\* U+212A KELVIN SIGN, one UTF-16 code unit whose toLowerCase() is "k"
KELVIN == "<U+212A>"
\* what peek() and peekNext() return past the end of the source
NUL == "<NUL>"

LowerLetters == {"a","b","c","d","e","f","g","h","i","j","k","l","m",
                 "n","o","p","q","r","s","t","u","v","w","x","y","z"}
UpperLetters == {"A","B","C","D","E","F","G","H","I","J","K","L","M",
                 "N","O","P","Q","R","S","T","U","V","W","X","Y","Z"}
DigitChars == <<"0","1","2","3","4","5","6","7","8","9">>

UpperToLower ==
    [c \in UpperLetters |->
        CASE c = "A" -> "a" [] c = "B" -> "b" [] c = "C" -> "c" [] c = "D" -> "d"
          [] c = "E" -> "e" [] c = "F" -> "f" [] c = "G" -> "g" [] c = "H" -> "h"
          [] c = "I" -> "i" [] c = "J" -> "j" [] c = "K" -> "k" [] c = "L" -> "l"
          [] c = "M" -> "m" [] c = "N" -> "n" [] c = "O" -> "o" [] c = "P" -> "p"
          [] c = "Q" -> "q" [] c = "R" -> "r" [] c = "S" -> "s" [] c = "T" -> "t"
          [] c = "U" -> "u" [] c = "V" -> "v" [] c = "W" -> "w" [] c = "X" -> "x"
          [] c = "Y" -> "y" [] c = "Z" -> "z"]

\* String.prototype.toLowerCase on one character: the Unicode lower-case
\* mapping, which sends the ASCII capitals and also U+212A to ASCII letters.
toLowerCase(c) ==
    IF c \in UpperLetters THEN UpperToLower[c]
    ELSE IF c = KELVIN THEN "k"
    ELSE c

\* Lexer.isDigit
isDigit(char) == \E i \in 1..10 : DigitChars[i] = char

\* Lexer.isAlpha
isAlpha(char) == char \in LowerLetters \/ char \in UpperLetters \/ char = "_"

\* Lexer.isAlphaNumeric
isAlphaNumeric(char) == isAlpha(char) \/ isDigit(char)

RECURSIVE Str(_)
\* the JavaScript string made of a sequence of characters
Str(chars) == IF chars = <<>> THEN "" ELSE Head(chars) \o Str(Tail(chars))

RECURSIVE MapLower(_)
MapLower(chars) ==
    IF chars = <<>> THEN <<>> ELSE <<toLowerCase(Head(chars))>> \o MapLower(Tail(chars))

(***************************************************************************)
(* Runtime values (also used for token and AST literals)                   *)
(***************************************************************************)
NullV == [t |-> "null", n |-> 0, d |-> 1, s |-> "", b |-> FALSE]
NumV(n, d) == [t |-> "number", n |-> n, d |-> d, s |-> "", b |-> FALSE]
StrV(s) == [t |-> "string", n |-> 0, d |-> 1, s |-> s, b |-> FALSE]
BoolV(b) == [t |-> "boolean", n |-> 0, d |-> 1, s |-> "", b |-> b]
FunV(id) == [t |-> "function", n |-> id, d |-> 1, s |-> "", b |-> FALSE]

(***************************************************************************)
(* tokens.js                                                               *)
(***************************************************************************)
\* Keywords, in the insertion order of the object literal
Keywords == <<
    [text |-> <<"C","h","a","l"," ","b","h","a","i"," ","s","u","r","u"," ","k","a","r">>,
     type |-> "ACTION"],
    [text |-> <<"b","a","s"," ","k","h","a","t","a","m"," ","k","a","r","o">>,
     type |-> "PAISA_VASOOL"],
    [text |-> <<"m","a","a","n"," ","l","o">>, type |-> "MAAN_LO"],
    [text |-> <<"a","g","a","r"," ","k","i","s","m","a","t"," ","r","a","h","i">>,
     type |-> "AGAR_KISMAT_RAHI"],
    [text |-> <<"n","a","h","i"," ","t","o">>, type |-> "NAHI_TO"],
    [text |-> <<"w","a","r","n","a">>, type |-> "WARNA"],
    [text |-> <<"j","a","b"," ","t","a","k"," ","h","a","i"," ","j","a","a","n">>,
     type |-> "JAB_TAK_HAI_JAAN"],
    [text |-> <<"m","e"," ","b","a","h","a","r"," ","j","a"," ","r","a","h","a"," ","h","u">>,
     type |-> "BREAK"],
    [text |-> <<"c","l","i","m","a","x">>, type |-> "CLIMAX"],
    [text |-> <<"d","i","a","l","o","g","u","e"," ","w","a","p","a","s"," ","d","o">>,
     type |-> "DIALOGUE_WAPAS_DO"],
    [text |-> <<"e","k"," ","b","a","a","t"," ","b","a","t","a","u","n",":">>,
     type |-> "EK_BAAT_BATAUN"],
    [text |-> <<"s","a","c","h">>, type |-> "SACH"],
    [text |-> <<"g","a","l","a","t">>, type |-> "GALAT"],
    [text |-> <<"k","h","a","a","l","i">>, type |-> "KHAALI"]
>>

\* Keywords[text]: an own property, or a property inherited from
\* Object.prototype (of the names made of identifier characters only
\* "constructor" and "__proto__" are all lower case); "" stands for undefined
KeywordsLookup(text) ==
    LET own == {i \in 1..Len(Keywords) : Keywords[i].text = text}
    IN  IF own # {} THEN Keywords[CHOOSE i \in own : TRUE].type
        ELSE IF text = <<"c","o","n","s","t","r","u","c","t","o","r">> THEN "Object.prototype.constructor"
        ELSE IF text = <<"_","_","p","r","o","t","o","_","_">> THEN "Object.prototype"
        ELSE ""

\* SingleCharTokens[char]; "" stands for undefined
SingleCharTokens(char) ==
    CASE char = "+" -> "PLUS"
      [] char = "-" -> "MINUS"
      [] char = "*" -> "STAR"
      [] char = "/" -> "SLASH"
      [] char = "%" -> "PERCENT"
      [] char = "(" -> "LPAREN"
      [] char = ")" -> "RPAREN"
      [] char = "{" -> "LBRACE"
      [] char = "}" -> "RBRACE"
      [] char = "," -> "COMMA"
      [] char = ":" -> "COLON"
      [] OTHER -> ""

\* new Token(type, lexeme, literal, line, column)
Token(type, lexeme, literal, ln, col) ==
    [type |-> type, lexeme |-> lexeme, literal |-> literal, line |-> ln, column |-> col]

(***************************************************************************)
(* errors.js                                                               *)
(***************************************************************************)
\* an error object: name is the class, key and arg name the ErrorMessages
\* entry and its argument, line and column are 0 where the code has null
MasalaError(name, key, arg, ln, col) ==
    [name |-> name, key |-> key, arg |-> arg, line |-> ln, column |-> col]

LexerError(key, arg, ln, col) == MasalaError("LexerError", key, arg, ln, col)
ParserError(key, ln, col) == MasalaError("ParserError", key, "", ln, col)
SemanticError(key, arg, ln) == MasalaError("SemanticError", key, arg, ln, 0)
RuntimeError(key, arg, ln) == MasalaError("RuntimeError", key, arg, ln, 0)
NoError == MasalaError("", "", "", 0, 0)

(***************************************************************************)
(* numbers                                                                 *)
(***************************************************************************)
Abs(x) == IF x < 0 THEN -x ELSE x

RECURSIVE GCD(_, _)
GCD(a, b) == IF b = 0 THEN a ELSE GCD(b, a % b)

\* the number n/d in lowest terms with a positive denominator
Rat(n, d) ==
    LET g == GCD(Abs(n), Abs(d))
        sg == IF d < 0 THEN -1 ELSE 1
    IN  NumV(sg * (n \div g), sg * (d \div g))

DigitValue(char) == (CHOOSE i \in 1..10 : DigitChars[i] = char) - 1

RECURSIVE DigitsValue(_, _)
\* the value of a run of decimal digits, acc being the value of those read
DigitsValue(chars, acc) ==
    IF chars = <<>> THEN acc
    ELSE DigitsValue(Tail(chars), 10 * acc + DigitValue(Head(chars)))

RECURSIVE Pow10(_)
Pow10(k) == IF k = 0 THEN 1 ELSE 10 * Pow10(k - 1)

\* parseFloat on a lexeme of the form DIGIT+ ( "." DIGIT+ )?
parseFloat(lexeme) ==
    LET dots == {i \in 1..Len(lexeme) : lexeme[i] = "."}
    IN  IF dots = {} THEN Rat(DigitsValue(lexeme, 0), 1)
        ELSE LET p == CHOOSE i \in dots : TRUE
                 whole == SubSeq(lexeme, 1, p - 1)
                 frac == SubSeq(lexeme, p + 1, Len(lexeme))
             IN  Rat(DigitsValue(whole \o frac, 0), Pow10(Len(frac)))

(***************************************************************************)
(* lexer.js                                                                *)
(***************************************************************************)
\* Lexer.isAtEnd with this.current = pos
LexerIsAtEnd(pos) == pos >= Len(source)

\* Lexer.peek with this.current = pos
LexerPeek(pos) == IF LexerIsAtEnd(pos) THEN NUL ELSE source[pos + 1]

\* Lexer.peekNext with this.current = pos
LexerPeekNext(pos) == IF pos + 1 >= Len(source) THEN NUL ELSE source[pos + 2]

\* source.slice(from, to)
Slice(from, to) ==
    LET hi == IF to > Len(source) THEN Len(source) ELSE to
    IN  IF from >= hi THEN <<>> ELSE SubSeq(source, from + 1, hi)

RECURSIVE SkipComment(_)
\* the inner loop of skipWhitespaceAndComments: advance to the next newline
SkipComment(pos) ==
    IF LexerPeek(pos) # NL /\ ~LexerIsAtEnd(pos) THEN SkipComment(pos + 1) ELSE pos

RECURSIVE SkipLoop(_, _, _)
\* the outer loop of skipWhitespaceAndComments from (current, line, column)
SkipLoop(pos, ln, col) ==
    IF LexerIsAtEnd(pos) THEN [current |-> pos, line |-> ln, column |-> col]
    ELSE LET char == LexerPeek(pos)
         IN  IF char \in {" ", TAB, CR} THEN SkipLoop(pos + 1, ln, col + 1)
             ELSE IF char = NL THEN SkipLoop(pos + 1, ln + 1, 0 + 1)
             ELSE IF char = "/" /\ LexerPeekNext(pos) = "/"
                  THEN LET e == SkipComment(pos)
                       IN  SkipLoop(e, ln, col + (e - pos))
             ELSE [current |-> pos, line |-> ln, column |-> col]

\* Lexer.skipWhitespaceAndComments: the lexer fields after the call
skipWhitespaceAndComments(pos, ln, col) == SkipLoop(pos, ln, col)

RECURSIVE InsertByLength(_, _)
\* x put into a list sorted by descending length, after the entries that are
\* at least as long (Array.prototype.sort is stable)
InsertByLength(x, sorted) ==
    IF sorted = <<>> THEN <<x>>
    ELSE IF Len(Head(sorted).text) >= Len(x.text)
         THEN <<Head(sorted)>> \o InsertByLength(x, Tail(sorted))
         ELSE <<x>> \o sorted

RECURSIVE SortByLength(_, _)
SortByLength(list, sorted) ==
    IF list = <<>> THEN sorted
    ELSE SortByLength(Tail(list), InsertByLength(Head(list), sorted))

\* Object.keys(Keywords).sort((a, b) => b.length - a.length)
sortedKeywords == SortByLength(Keywords, <<>>)

\* the test of one candidate in matchKeyword's loop without the look at nextChar
KeywordMatchesAnywhere(keyword, pos) ==
    /\ pos + Len(keyword) <= Len(source)
    /\ \A i \in 1..Len(keyword) : toLowerCase(source[pos + i]) = toLowerCase(keyword[i])

\* the test of one candidate in matchKeyword's loop, at this.current = pos
KeywordMatches(keyword, pos) ==
    LET n == Len(keyword)
        endPos == pos + n
        endsWithSpecial == keyword[n] \in {"!", ":"}
    IN  /\ endPos <= Len(source)
        /\ \A i \in 1..n : toLowerCase(source[pos + i]) = toLowerCase(keyword[i])
        /\ \/ endsWithSpecial
           \/ endPos >= Len(source)
           \/ ~isAlphaNumeric(source[endPos + 1])

\* Lexer.matchKeyword: the index in sortedKeywords of the keyword consumed at
\* pos (the first one that passes the test), or 0 when it returns false
matchKeyword(pos) ==
    LET hits == {i \in 1..Len(sortedKeywords) : KeywordMatches(sortedKeywords[i].text, pos)}
    IN  IF hits = {} THEN 0 ELSE CHOOSE i \in hits : \A j \in hits : i <= j

RECURSIVE StringLoop(_, _, _)
\* the scanning loop of Lexer.string from (current, line, column)
StringLoop(pos, ln, col) ==
    IF LexerPeek(pos) # QUOTE /\ ~LexerIsAtEnd(pos)
    THEN LET nl == LexerPeek(pos) = NL
             ln1 == IF nl THEN ln + 1 ELSE ln
             col1 == IF nl THEN 0 ELSE col
         IN  IF LexerPeek(pos) = BACKSLASH
             THEN StringLoop(pos + 2, ln1, col1 + 2)
             ELSE StringLoop(pos + 1, ln1, col1 + 1)
    ELSE [current |-> pos, line |-> ln, column |-> col]

RECURSIVE ReplaceAll(_, _, _)
\* value.replace(/\\c/g, r): every occurrence of backslash followed by c,
\* left to right, becomes r
ReplaceAll(chars, c, r) ==
    IF Len(chars) < 2 THEN chars
    ELSE IF chars[1] = BACKSLASH /\ chars[2] = c
         THEN <<r>> \o ReplaceAll(SubSeq(chars, 3, Len(chars)), c, r)
         ELSE <<chars[1]>> \o ReplaceAll(Tail(chars), c, r)

\* the chain of five replace calls in Lexer.string
ProcessEscapes(value) ==
    ReplaceAll(ReplaceAll(ReplaceAll(ReplaceAll(ReplaceAll(value,
        "n", NL), "t", TAB), "r", CR), QUOTE, QUOTE), BACKSLASH, BACKSLASH)

RECURSIVE DigitLoop(_)
\* while (isDigit(peek())) advance()
DigitLoop(pos) == IF isDigit(LexerPeek(pos)) THEN DigitLoop(pos + 1) ELSE pos

\* the position after Lexer.number, entered with this.current = pos
NumberEnd(pos) ==
    LET e == DigitLoop(pos)
    IN  IF LexerPeek(e) = "." /\ isDigit(LexerPeekNext(e)) THEN DigitLoop(e + 1) ELSE e

RECURSIVE IdentifierEnd(_)
\* while (isAlphaNumeric(peek())) advance()
IdentifierEnd(pos) == IF isAlphaNumeric(LexerPeek(pos)) THEN IdentifierEnd(pos + 1) ELSE pos

\* Lexer.addToken: the token pushed, with this.current = cur and this.line = ln
addToken(type, literal, cur, ln) ==
    Token(type, Str(Slice(current, cur)), literal, ln, column)

\* run()'s catch block: the result object of a failed run
Failure(error) == [success |-> FALSE, errorObject |-> error]
\* run()'s return on success
Success(out) == [success |-> TRUE, output |-> out]

(***************************************************************************)
(* Lexer.tokenize: one action per iteration of its loop, named after the   *)
(* branch of scanToken that the iteration takes                            *)
(***************************************************************************)
\* the guard of an iteration in which scanToken gets past its first line:
\* the loop has not ended and skipWhitespaceAndComments returned false
AtTokenStart ==
    /\ phase = "lex"
    /\ ~LexerIsAtEnd(current)
    /\ skipWhitespaceAndComments(current, line, column).current = current

\* the iteration ends with a token pushed and the lexer at (cur, ln)
PushToken(tok, cur, ln) ==
    /\ start' = current
    /\ startColumn' = column
    /\ current' = cur
    /\ column' = column + (cur - current)
    /\ line' = ln
    /\ tokens' = Append(tokens, tok)
    /\ UNCHANGED <<options, source, phase, ast, analyzer, envs, funs, environment, output, pc, result>>

\* the iteration throws: run() catches the error and returns the failure
ThrowInLexer(error, cur, ln, col) ==
    /\ start' = current
    /\ startColumn' = column
    /\ current' = cur
    /\ column' = col
    /\ line' = ln
    /\ phase' = "done"
    /\ result' = <<Failure(error)>> \o result
    /\ UNCHANGED <<options, source, tokens, ast, analyzer, envs, funs, environment, output, pc>>

\* scanToken returns at "if (this.skipWhitespaceAndComments()) return"
ScanWhitespaceAndComments ==
    /\ phase = "lex"
    /\ ~LexerIsAtEnd(current)
    /\ LET r == skipWhitespaceAndComments(current, line, column)
       IN  /\ r.current # current
           /\ start' = current
           /\ startColumn' = column
           /\ current' = r.current
           /\ line' = r.line
           /\ column' = r.column
    /\ UNCHANGED <<options, source, phase, tokens, ast, analyzer, envs, funs, environment, output, pc, result>>

\* scanToken returns at "if (this.matchKeyword()) return"
ScanKeyword ==
    /\ AtTokenStart
    /\ matchKeyword(current) # 0
    /\ LET keyword == sortedKeywords[matchKeyword(current)]
           cur == current + Len(keyword.text)
       IN  PushToken(addToken(keyword.type, NullV, cur, line), cur, line)

\* the character scanToken reads with "const char = this.advance()"
ScanChar == source[current + 1]

AfterKeywordTest == AtTokenStart /\ matchKeyword(current) = 0

\* scanToken: "if (SingleCharTokens[char])"
ScanSingleChar ==
    /\ AfterKeywordTest
    /\ SingleCharTokens(ScanChar) # ""
    /\ PushToken(addToken(SingleCharTokens(ScanChar), NullV, current + 1, line),
                 current + 1, line)

\* Lexer.match(expected) after the advance() of scanToken
LexerMatch(expected) ==
    ~LexerIsAtEnd(current + 1) /\ source[current + 2] = expected

\* scanToken: the switch on "=", "!", "<", ">", "&", "|"
ScanOperator ==
    /\ AfterKeywordTest
    /\ SingleCharTokens(ScanChar) = ""
    /\ ScanChar \in {"=", "!", "<", ">", "&", "|"}
    /\ LET char == ScanChar
           two == LexerMatch(IF char \in {"&", "|"} THEN char ELSE "=")
           cur == IF two THEN current + 2 ELSE current + 1
           type == CASE char = "=" -> IF two THEN "EQUAL_EQUAL" ELSE "EQUAL"
                     [] char = "!" -> IF two THEN "BANG_EQUAL" ELSE "BANG"
                     [] char = "<" -> IF two THEN "LESS_EQUAL" ELSE "LESS"
                     [] char = ">" -> IF two THEN "GREATER_EQUAL" ELSE "GREATER"
                     [] char = "&" -> "AND"
                     [] char = "|" -> "OR"
       IN  IF char \in {"&", "|"} /\ ~two
           THEN ThrowInLexer(LexerError("UNEXPECTED_CHARACTER", char, line, column),
                             current + 1, line, column + 1)
           ELSE PushToken(addToken(type, NullV, cur, line), cur, line)

AfterOperatorTest ==
    /\ AfterKeywordTest
    /\ SingleCharTokens(ScanChar) = ""
    /\ ScanChar \notin {"=", "!", "<", ">", "&", "|"}

\* scanToken: "if (char === '\"')", Lexer.string
ScanString ==
    /\ AfterOperatorTest
    /\ ScanChar = QUOTE
    /\ LET r == StringLoop(current + 1, line, column + 1)
           cur == r.current + 1
           value == ProcessEscapes(Slice(current + 1, cur - 1))
       IN  IF LexerIsAtEnd(r.current)
           THEN ThrowInLexer(LexerError("UNTERMINATED_STRING", "", line, column),
                             r.current, r.line, r.column)
           ELSE /\ start' = current
                /\ startColumn' = column
                /\ current' = cur
                /\ column' = r.column + 1
                /\ line' = r.line
                /\ tokens' = Append(tokens, addToken("STRING", StrV(Str(value)), cur, r.line))
                /\ UNCHANGED <<options, source, phase, ast, analyzer, envs, funs, environment,
                               output, pc, result>>

\* scanToken: "if (this.isDigit(char))", Lexer.number (a lexeme that starts
\* with a digit never parses to NaN, so its throw is unreachable)
ScanNumber ==
    /\ AfterOperatorTest
    /\ isDigit(ScanChar)
    /\ LET cur == NumberEnd(current + 1)
       IN  PushToken(addToken("NUMBER", parseFloat(Slice(current, cur)), cur, line), cur, line)

\* scanToken: "if (this.isAlpha(char))", Lexer.identifier
ScanIdentifier ==
    /\ AfterOperatorTest
    /\ isAlpha(ScanChar)
    /\ LET cur == IdentifierEnd(current + 1)
           text == Slice(current, cur)
           found == KeywordsLookup(MapLower(text))
           tokenType == IF found # "" THEN found ELSE "IDENTIFIER"
           literal == IF tokenType = "IDENTIFIER" THEN StrV(Str(text)) ELSE NullV
       IN  PushToken(addToken(tokenType, literal, cur, line), cur, line)

\* scanToken: the final throw
ScanUnexpectedCharacter ==
    /\ AfterOperatorTest
    /\ ScanChar # QUOTE /\ ~isDigit(ScanChar) /\ ~isAlpha(ScanChar)
    /\ ThrowInLexer(LexerError("UNEXPECTED_CHARACTER", ScanChar, line, column),
                    current + 1, line, column + 1)

\* tokenize: the loop has ended, the EOF token is pushed and tokenize returns
TokenizeEnd ==
    /\ phase = "lex"
    /\ LexerIsAtEnd(current)
    /\ tokens' = Append(tokens, Token("EOF", "", NullV, line, column))
    /\ phase' = "parse"
    /\ UNCHANGED <<options, source, start, current, line, column, startColumn, ast, analyzer,
                   envs, funs, environment, output, pc, result>>

LexerStep ==
    \/ ScanWhitespaceAndComments
    \/ ScanKeyword
    \/ ScanSingleChar
    \/ ScanOperator
    \/ ScanString
    \/ ScanNumber
    \/ ScanIdentifier
    \/ ScanUnexpectedCharacter
    \/ TokenizeEnd

(***************************************************************************)
(* ast.js: the node factory functions.  An optional child (alternate,      *)
(* ReturnStatement.value) is a sequence of zero or one node.               *)
(***************************************************************************)
Program(body) == [type |-> "Program", body |-> body]
VariableDeclaration(name, value, ln) ==
    [type |-> "VariableDeclaration", name |-> name, value |-> value, line |-> ln]
Assignment(name, value, ln) ==
    [type |-> "Assignment", name |-> name, value |-> value, line |-> ln]
PrintStatement(expressions, ln) ==
    [type |-> "PrintStatement", expressions |-> expressions, line |-> ln]
IfStatement(conditions, consequents, alternate, ln) ==
    [type |-> "IfStatement", conditions |-> conditions, consequents |-> consequents,
     alternate |-> alternate, line |-> ln]
WhileStatement(condition, body, ln) ==
    [type |-> "WhileStatement", condition |-> condition, body |-> body, line |-> ln]
FunctionDeclaration(name, params, body, ln) ==
    [type |-> "FunctionDeclaration", name |-> name, params |-> params, body |-> body, line |-> ln]
ReturnStatement(value, ln) == [type |-> "ReturnStatement", value |-> value, line |-> ln]
ExpressionStatement(expression, ln) ==
    [type |-> "ExpressionStatement", expression |-> expression, line |-> ln]
Block(statements) == [type |-> "Block", statements |-> statements]
BinaryExpression(operator, left, right, ln) ==
    [type |-> "BinaryExpression", operator |-> operator, left |-> left, right |-> right, line |-> ln]
UnaryExpression(operator, operand, ln) ==
    [type |-> "UnaryExpression", operator |-> operator, operand |-> operand, line |-> ln]
CallExpression(callee, args, ln) ==
    [type |-> "CallExpression", callee |-> callee, arguments |-> args, line |-> ln]
Literal(value, ln) == [type |-> "Literal", value |-> value, line |-> ln]
Identifier(name, ln) == [type |-> "Identifier", name |-> name, line |-> ln]
Grouping(expression, ln) == [type |-> "Grouping", expression |-> expression, line |-> ln]

(***************************************************************************)
(* parser.js.  A parsing method is an operator of this.current (pos,       *)
(* 0-based) that yields what the method returns in node, or the error it   *)
(* throws, and this.current afterwards.                                    *)
(***************************************************************************)
Ok(node, pos) == [ok |-> TRUE, node |-> node, pos |-> pos, error |-> NoError]
Err(error, pos) == [ok |-> FALSE, node |-> <<>>, pos |-> pos, error |-> error]

\* Parser.peek
ParserPeek(pos) == tokens[pos + 1]
\* Parser.previous
ParserPrevious(pos) == tokens[pos]
\* Parser.isAtEnd
ParserIsAtEnd(pos) == ParserPeek(pos).type = "EOF"
\* Parser.advance: this.current afterwards
ParserAdvance(pos) == IF ~ParserIsAtEnd(pos) THEN pos + 1 ELSE pos
\* Parser.check
check(type, pos) == IF ParserIsAtEnd(pos) THEN FALSE ELSE ParserPeek(pos).type = type
\* Parser.match(...types): whether it consumed a token (this.current is then pos + 1)
ParserMatch(types, pos) == \E type \in types : check(type, pos)
\* the ParserError thrown at the token under this.current
ErrorAtPeek(key, pos) == Err(ParserError(key, ParserPeek(pos).line, ParserPeek(pos).column), pos)
\* Parser.consume: node is the token consumed
consume(type, errorMessage, pos) ==
    IF check(type, pos) THEN Ok(ParserPeek(pos), pos + 1) ELSE ErrorAtPeek(errorMessage, pos)

SyncTypes == {"MAAN_LO", "CLIMAX", "AGAR_KISMAT_RAHI", "JAB_TAK_HAI_JAAN",
              "EK_BAAT_BATAUN", "DIALOGUE_WAPAS_DO", "PAISA_VASOOL"}

RECURSIVE SyncLoop(_)
SyncLoop(pos) ==
    IF ParserIsAtEnd(pos) \/ ParserPeek(pos).type \in SyncTypes THEN pos ELSE SyncLoop(pos + 1)

\* Parser.synchronize: this.current afterwards
synchronize(pos) == SyncLoop(ParserAdvance(pos))

\* Rule(method, pos) is the call this.<method>() that one method of the parser
\* makes of another, with this.current = pos
RECURSIVE Rule(_, _), DeclarationLoop(_, _, _), ArgumentLoop(_, _), LeftAssoc(_, _, _),
          ElseIfLoop(_, _, _), CallLoop(_, _)

\* "while (!this.check(end) && !this.isAtEnd()) statements.push(this.declaration())"
\* of Parser.program (end = PAISA_VASOOL) and Parser.block (end = RBRACE)
DeclarationLoop(end, statements, pos) ==
    IF ~check(end, pos) /\ ~ParserIsAtEnd(pos)
    THEN LET r == Rule("declaration", pos)
         IN  IF ~r.ok THEN r ELSE DeclarationLoop(end, Append(statements, r.node), r.pos)
    ELSE Ok(statements, pos)

\* Parser.program without its closing "this.consume(TokenType.PAISA_VASOOL, ...)"
programWithoutEndCheck ==
    IF ~check("ACTION", 0) THEN ErrorAtPeek("EXPECTED_ACTION", 0)
    ELSE LET r == DeclarationLoop("PAISA_VASOOL", <<>>, ParserAdvance(0))
         IN  IF ~r.ok THEN r ELSE Ok(Program(r.node), ParserAdvance(r.pos))

\* Parser.program
program ==
    IF ~check("ACTION", 0) THEN ErrorAtPeek("EXPECTED_ACTION", 0)
    ELSE LET r == DeclarationLoop("PAISA_VASOOL", <<>>, ParserAdvance(0))
         IN  IF ~r.ok THEN r
             ELSE IF ~check("PAISA_VASOOL", r.pos) THEN ErrorAtPeek("EXPECTED_PAISA_VASOOL", r.pos)
             ELSE Ok(Program(r.node), ParserAdvance(r.pos))

\* Parser.parse
parse == Rule("program", 0)

RECURSIVE ParamLoop(_, _)
\* the do-while loop over the parameters in Parser.functionDeclaration
ParamLoop(params, pos) ==
    IF ~check("IDENTIFIER", pos) THEN ErrorAtPeek("EXPECTED_IDENTIFIER", pos)
    ELSE LET ps == Append(params, ParserPeek(pos).lexeme)
         IN  IF check("COMMA", pos + 1) THEN ParamLoop(ps, pos + 2) ELSE Ok(ps, pos + 1)

\* Parser.functionDeclaration
functionDeclaration(pos) ==
    LET ln == ParserPeek(pos).line
        p1 == ParserAdvance(pos)
    IN  IF ~check("IDENTIFIER", p1) THEN ErrorAtPeek("EXPECTED_IDENTIFIER", p1)
        ELSE
        LET name == ParserPeek(p1).lexeme
            lp == consume("LPAREN", "EXPECTED_LPAREN", p1 + 1)
        IN  IF ~lp.ok THEN lp ELSE
        LET params == IF ~check("RPAREN", lp.pos) THEN ParamLoop(<<>>, lp.pos)
                      ELSE Ok(<<>>, lp.pos)
        IN  IF ~params.ok THEN params ELSE
        LET rp == consume("RPAREN", "EXPECTED_RPAREN", params.pos)
        IN  IF ~rp.ok THEN rp ELSE
        LET lb == consume("LBRACE", "EXPECTED_LBRACE", rp.pos)
        IN  IF ~lb.ok THEN lb ELSE
        LET body == Rule("block", lb.pos)
        IN  IF ~body.ok THEN body
            ELSE Ok(FunctionDeclaration(name, params.node, body.node, ln), body.pos)

\* Parser.variableDeclaration
variableDeclaration(pos) ==
    LET ln == ParserPeek(pos).line
        p1 == ParserAdvance(pos)
    IN  IF ~check("IDENTIFIER", p1) THEN ErrorAtPeek("EXPECTED_IDENTIFIER", p1)
        ELSE
        LET name == ParserPeek(p1).lexeme
            eq == consume("EQUAL", "EXPECTED_EQUALS", p1 + 1)
        IN  IF ~eq.ok THEN eq ELSE
        LET value == Rule("expression", eq.pos)
        IN  IF ~value.ok THEN value
            ELSE Ok(VariableDeclaration(name, value.node, ln), value.pos)

\* Parser.declaration: what its try block does
DeclarationBody(pos) ==
    IF check("CLIMAX", pos) THEN Rule("functionDeclaration", pos)
    ELSE IF check("MAAN_LO", pos) THEN Rule("variableDeclaration", pos)
    ELSE Rule("statement", pos)

\* Parser.declaration, with the catch that synchronizes and rethrows
declaration(pos) ==
    LET r == DeclarationBody(pos)
    IN  IF r.ok THEN r ELSE Err(r.error, synchronize(r.pos))

\* "( expression ) { block" shared by the if, else-if and while clauses;
\* node is <<condition, block>>
ConditionAndBlock(pos) ==
    LET lp == consume("LPAREN", "EXPECTED_LPAREN", pos)
    IN  IF ~lp.ok THEN lp ELSE
    LET cond == Rule("expression", lp.pos)
    IN  IF ~cond.ok THEN cond ELSE
    LET rp == consume("RPAREN", "EXPECTED_RPAREN", cond.pos)
    IN  IF ~rp.ok THEN rp ELSE
    LET lb == consume("LBRACE", "EXPECTED_LBRACE", rp.pos)
    IN  IF ~lb.ok THEN lb ELSE
    LET body == Rule("block", lb.pos)
    IN  IF ~body.ok THEN body ELSE Ok(<<cond.node, body.node>>, body.pos)

\* the "nahi to" loop of Parser.ifStatement; node is <<conditions, consequents>>
ElseIfLoop(conditions, consequents, pos) ==
    IF check("NAHI_TO", pos)
    THEN LET r == ConditionAndBlock(ParserAdvance(pos))
         IN  IF ~r.ok THEN r
             ELSE ElseIfLoop(Append(conditions, r.node[1]), Append(consequents, r.node[2]), r.pos)
    ELSE Ok(<<conditions, consequents>>, pos)

\* Parser.ifStatement
ifStatement(pos) ==
    LET ln == ParserPeek(pos).line
        first == ConditionAndBlock(ParserAdvance(pos))
    IN  IF ~first.ok THEN first ELSE
    LET rest == ElseIfLoop(<<first.node[1]>>, <<first.node[2]>>, first.pos)
    IN  IF ~rest.ok THEN rest ELSE
        IF check("WARNA", rest.pos)
        THEN LET lb == consume("LBRACE", "EXPECTED_LBRACE", ParserAdvance(rest.pos))
             IN  IF ~lb.ok THEN lb ELSE
             LET alt == Rule("block", lb.pos)
             IN  IF ~alt.ok THEN alt
                 ELSE Ok(IfStatement(rest.node[1], rest.node[2], <<alt.node>>, ln), alt.pos)
        ELSE Ok(IfStatement(rest.node[1], rest.node[2], <<>>, ln), rest.pos)

\* Parser.whileStatement
whileStatement(pos) ==
    LET ln == ParserPeek(pos).line
        r == ConditionAndBlock(ParserAdvance(pos))
    IN  IF ~r.ok THEN r ELSE Ok(WhileStatement(r.node[1], r.node[2], ln), r.pos)

\* Parser.returnStatement
returnStatement(pos) ==
    LET ln == ParserPeek(pos).line
        p1 == ParserAdvance(pos)
    IN  IF ~check("RBRACE", p1) /\ ~check("PAISA_VASOOL", p1) /\ ~ParserIsAtEnd(p1)
        THEN LET value == Rule("expression", p1)
             IN  IF ~value.ok THEN value ELSE Ok(ReturnStatement(<<value.node>>, ln), value.pos)
        ELSE Ok(ReturnStatement(<<>>, ln), p1)

\* "expression ("," expression)*" of Parser.printStatement and Parser.finishCall
ArgumentLoop(args, pos) ==
    LET r == Rule("expression", pos)
    IN  IF ~r.ok THEN r
        ELSE IF check("COMMA", r.pos) THEN ArgumentLoop(Append(args, r.node), r.pos + 1)
        ELSE Ok(Append(args, r.node), r.pos)

\* Parser.printStatement
printStatement(pos) ==
    LET ln == ParserPeek(pos).line
        r == ArgumentLoop(<<>>, ParserAdvance(pos))
    IN  IF ~r.ok THEN r ELSE Ok(PrintStatement(r.node, ln), r.pos)

\* Parser.block, entered after the "{"
block(pos) ==
    LET r == DeclarationLoop("RBRACE", <<>>, pos)
    IN  IF ~r.ok THEN r ELSE
    LET rb == consume("RBRACE", "EXPECTED_RBRACE", r.pos)
    IN  IF ~rb.ok THEN rb ELSE Ok(Block(r.node), rb.pos)

\* Parser.expressionStatement
expressionStatement(pos) ==
    LET ln == ParserPeek(pos).line
        r == Rule("expression", pos)
    IN  IF ~r.ok THEN r ELSE Ok(ExpressionStatement(r.node, ln), r.pos)

\* Parser.statement
statement(pos) ==
    IF check("AGAR_KISMAT_RAHI", pos) THEN Rule("ifStatement", pos)
    ELSE IF check("JAB_TAK_HAI_JAAN", pos) THEN Rule("whileStatement", pos)
    ELSE IF check("DIALOGUE_WAPAS_DO", pos) THEN Rule("returnStatement", pos)
    ELSE IF check("EK_BAAT_BATAUN", pos) THEN Rule("printStatement", pos)
    ELSE IF check("LBRACE", pos) THEN Rule("block", ParserAdvance(pos))
    ELSE Rule("expressionStatement", pos)

\* Parser.expression
expression(pos) == Rule("assignment", pos)

\* the levels with the operators of term and factor exchanged
LevelTypesFactorBelowTerm ==
    << {"OR"}, {"AND"}, {"EQUAL_EQUAL", "BANG_EQUAL"},
       {"LESS", "GREATER", "LESS_EQUAL", "GREATER_EQUAL"},
       {"STAR", "SLASH", "PERCENT"}, {"PLUS", "MINUS"} >>

\* the token types matched by the loops of logicOr, logicAnd, equality,
\* comparison, term and factor
LevelTypes ==
    << {"OR"}, {"AND"}, {"EQUAL_EQUAL", "BANG_EQUAL"},
       {"LESS", "GREATER", "LESS_EQUAL", "GREATER_EQUAL"},
       {"PLUS", "MINUS"}, {"STAR", "SLASH", "PERCENT"} >>

\* the method that parses the operands of a level's operators
Operand(level, pos) ==
    CASE level = 1 -> Rule("logicAnd", pos)
      [] level = 2 -> Rule("equality", pos)
      [] level = 3 -> Rule("comparison", pos)
      [] level = 4 -> Rule("term", pos)
      [] level = 5 -> Rule("factor", pos)
      [] level = 6 -> Rule("unary", pos)

\* the loop "while (this.match(...)) { operator; right = <next level>();
\* expr = AST.BinaryExpression(operator, expr, right, this.previous().line) }"
LeftAssoc(level, expr, pos) ==
    IF ParserMatch(LevelTypes[level], pos)
    THEN LET operator == ParserPeek(pos).lexeme
             right == Operand(level, pos + 1)
         IN  IF ~right.ok THEN right
             ELSE LeftAssoc(level,
                     BinaryExpression(operator, expr, right.node, ParserPrevious(right.pos).line),
                     right.pos)
    ELSE Ok(expr, pos)

\* Parser.factor
factor(pos) ==
    LET l == Rule("unary", pos) IN IF ~l.ok THEN l ELSE LeftAssoc(6, l.node, l.pos)
\* Parser.term
term(pos) ==
    LET l == Rule("factor", pos) IN IF ~l.ok THEN l ELSE LeftAssoc(5, l.node, l.pos)
\* Parser.comparison
comparison(pos) ==
    LET l == Rule("term", pos) IN IF ~l.ok THEN l ELSE LeftAssoc(4, l.node, l.pos)
\* Parser.equality
equality(pos) ==
    LET l == Rule("comparison", pos) IN IF ~l.ok THEN l ELSE LeftAssoc(3, l.node, l.pos)
\* Parser.logicAnd
logicAnd(pos) ==
    LET l == Rule("equality", pos) IN IF ~l.ok THEN l ELSE LeftAssoc(2, l.node, l.pos)
\* Parser.logicOr
logicOr(pos) ==
    LET l == Rule("logicAnd", pos) IN IF ~l.ok THEN l ELSE LeftAssoc(1, l.node, l.pos)

\* Parser.assignment
assignment(pos) ==
    LET expr == Rule("logicOr", pos)
    IN  IF ~expr.ok THEN expr ELSE
        IF check("EQUAL", expr.pos)
        THEN LET value == Rule("assignment", expr.pos + 1)
             IN  IF ~value.ok THEN value
                 ELSE IF expr.node.type = "Identifier"
                      THEN Ok(Assignment(expr.node.name, value.node, expr.node.line), value.pos)
                      ELSE Err(ParserError("INVALID_ASSIGNMENT_TARGET",
                                           ParserPrevious(value.pos).line,
                                           ParserPrevious(value.pos).column), value.pos)
        ELSE expr

\* Parser.unary
unary(pos) ==
    IF ParserMatch({"BANG", "MINUS"}, pos)
    THEN LET operator == ParserPeek(pos).lexeme
             operand == Rule("unary", pos + 1)
         IN  IF ~operand.ok THEN operand
             ELSE Ok(UnaryExpression(operator, operand.node, ParserPrevious(operand.pos).line),
                     operand.pos)
    ELSE Rule("call", pos)

\* Parser.finishCall, entered after the "("
finishCall(callee, pos) ==
    LET args == IF ~check("RPAREN", pos) THEN ArgumentLoop(<<>>, pos) ELSE Ok(<<>>, pos)
    IN  IF ~args.ok THEN args ELSE
    LET paren == consume("RPAREN", "EXPECTED_RPAREN", args.pos)
        calleeName == IF callee.type = "Identifier" THEN callee.name ELSE "<expr>"
    IN  IF ~paren.ok THEN paren
        ELSE Ok(CallExpression(calleeName, args.node, paren.node.line), paren.pos)

\* the loop of Parser.call
CallLoop(expr, pos) ==
    IF check("LPAREN", pos)
    THEN LET r == finishCall(expr, pos + 1)
         IN  IF ~r.ok THEN r ELSE CallLoop(r.node, r.pos)
    ELSE Ok(expr, pos)

\* Parser.call
call(pos) ==
    LET expr == Rule("primary", pos) IN IF ~expr.ok THEN expr ELSE CallLoop(expr.node, expr.pos)

\* Parser.primary
primary(pos) ==
    LET ln == ParserPeek(pos).line
    IN  IF check("SACH", pos) THEN Ok(Literal(BoolV(TRUE), ln), pos + 1)
        ELSE IF check("GALAT", pos) THEN Ok(Literal(BoolV(FALSE), ln), pos + 1)
        ELSE IF check("KHAALI", pos) THEN Ok(Literal(NullV, ln), pos + 1)
        ELSE IF check("NUMBER", pos) THEN Ok(Literal(ParserPeek(pos).literal, ln), pos + 1)
        ELSE IF check("STRING", pos) THEN Ok(Literal(ParserPeek(pos).literal, ln), pos + 1)
        ELSE IF check("IDENTIFIER", pos) THEN Ok(Identifier(ParserPeek(pos).lexeme, ln), pos + 1)
        ELSE IF check("LPAREN", pos)
             THEN LET expr == Rule("expression", pos + 1)
                  IN  IF ~expr.ok THEN expr ELSE
                  LET rp == consume("RPAREN", "EXPECTED_RPAREN", expr.pos)
                  IN  IF ~rp.ok THEN rp ELSE Ok(Grouping(expr.node, ln), rp.pos)
        ELSE ErrorAtPeek("EXPECTED_EXPRESSION", pos)

Rule(method, pos) ==
    CASE method = "program" -> program
      [] method = "declaration" -> declaration(pos)
      [] method = "functionDeclaration" -> functionDeclaration(pos)
      [] method = "variableDeclaration" -> variableDeclaration(pos)
      [] method = "statement" -> statement(pos)
      [] method = "ifStatement" -> ifStatement(pos)
      [] method = "whileStatement" -> whileStatement(pos)
      [] method = "returnStatement" -> returnStatement(pos)
      [] method = "printStatement" -> printStatement(pos)
      [] method = "block" -> block(pos)
      [] method = "expressionStatement" -> expressionStatement(pos)
      [] method = "expression" -> expression(pos)
      [] method = "assignment" -> assignment(pos)
      [] method = "logicOr" -> logicOr(pos)
      [] method = "logicAnd" -> logicAnd(pos)
      [] method = "equality" -> equality(pos)
      [] method = "comparison" -> comparison(pos)
      [] method = "term" -> term(pos)
      [] method = "factor" -> factor(pos)
      [] method = "unary" -> unary(pos)
      [] method = "call" -> call(pos)
      [] method = "primary" -> primary(pos)

(***************************************************************************)
(* analyzer.js.  A visit method is an operator of the node and the         *)
(* analyzer's fields a = [scopes, functions, currentFunction, errors] that *)
(* yields the fields after the call; a thrown SemanticError is the one     *)
(* entry of errors, and every caller returns at once when it is there.     *)
(***************************************************************************)
\* Map.prototype.set
MapSet(map, key, value) ==
    [k \in DOMAIN map \cup {key} |-> IF k = key THEN value ELSE map[k]]

EmptyMap == [k \in {} |-> 0]

\* the fields set by the Analyzer constructor and again by analyze();
\* currentFunction is a sequence, empty for null
NewAnalyzer ==
    [scopes |-> <<EmptyMap>>, functions |-> EmptyMap, currentFunction |-> <<>>, errors |-> <<>>]

Thrown(a) == a.errors # <<>>
Throw(a, error) == [a EXCEPT !.errors = <<error>>]

\* Analyzer.pushScope
pushScope(a) == [a EXCEPT !.scopes = Append(a.scopes, EmptyMap)]
\* Analyzer.popScope
popScope(a) == [a EXCEPT !.scopes = SubSeq(a.scopes, 1, Len(a.scopes) - 1)]
\* Analyzer.lookupVariable: whether a binding is found
lookupVariable(a, name) == \E i \in 1..Len(a.scopes) : name \in DOMAIN a.scopes[i]
\* currentScope.set(name, {type, line})
DeclareInCurrentScope(a, name, type) ==
    [a EXCEPT !.scopes[Len(a.scopes)] = MapSet(a.scopes[Len(a.scopes)], name, type)]

RECURSIVE visitStatement(_, _), visitExpression(_, _), VisitStatements(_, _),
          VisitExpressions(_, _), VisitBlocks(_, _)

\* "for (const stmt of list) this.visitStatement(stmt)"
VisitStatements(list, a) ==
    IF list = <<>> \/ Thrown(a) THEN a
    ELSE VisitStatements(Tail(list), visitStatement(Head(list), a))

\* "for (const expr of list) this.visitExpression(expr)"
VisitExpressions(list, a) ==
    IF list = <<>> \/ Thrown(a) THEN a
    ELSE VisitExpressions(Tail(list), visitExpression(Head(list), a))

\* Analyzer.visitBlock
visitBlock(node, createNewScope, a) ==
    LET a1 == IF createNewScope THEN pushScope(a) ELSE a
        a2 == VisitStatements(node.statements, a1)
    IN  IF Thrown(a2) THEN a2
        ELSE IF createNewScope THEN popScope(a2) ELSE a2

\* "for (const block of list) this.visitBlock(block, true)"
VisitBlocks(list, a) ==
    IF list = <<>> \/ Thrown(a) THEN a
    ELSE VisitBlocks(Tail(list), visitBlock(Head(list), TRUE, a))

\* Analyzer.visitAssignment
visitAssignment(node, a) ==
    IF ~lookupVariable(a, node.name)
    THEN Throw(a, SemanticError("UNDEFINED_VARIABLE", node.name, node.line))
    ELSE visitExpression(node.value, a)

\* Analyzer.visitVariableDeclaration
visitVariableDeclaration(node, a) ==
    IF node.name \in DOMAIN a.scopes[Len(a.scopes)]
    THEN Throw(a, SemanticError("ALREADY_DEFINED", node.name, node.line))
    ELSE LET a1 == visitExpression(node.value, a)
         IN  IF Thrown(a1) THEN a1 ELSE DeclareInCurrentScope(a1, node.name, "variable")

\* Analyzer.visitPrintStatement
visitPrintStatement(node, a) == VisitExpressions(node.expressions, a)

\* Analyzer.visitIfStatement
visitIfStatement(node, a) ==
    VisitBlocks(node.alternate, VisitBlocks(node.consequents, VisitExpressions(node.conditions, a)))

\* Analyzer.visitWhileStatement
visitWhileStatement(node, a) ==
    LET a1 == visitExpression(node.condition, a)
    IN  IF Thrown(a1) THEN a1 ELSE visitBlock(node.body, TRUE, a1)

\* Analyzer.declareFunction
declareFunction(node, a) ==
    IF node.name \in DOMAIN a.functions
    THEN Throw(a, SemanticError("ALREADY_DEFINED", node.name, node.line))
    ELSE DeclareInCurrentScope(
            [a EXCEPT !.functions = MapSet(a.functions, node.name, Len(node.params))],
            node.name, "function")

RECURSIVE DeclareParams(_, _, _)
\* the loop over node.params in Analyzer.visitFunctionDeclaration
DeclareParams(params, ln, a) ==
    IF params = <<>> THEN a
    ELSE IF Head(params) \in DOMAIN a.scopes[Len(a.scopes)]
         THEN Throw(a, SemanticError("ALREADY_DEFINED", Head(params), ln))
         ELSE DeclareParams(Tail(params), ln, DeclareInCurrentScope(a, Head(params), "parameter"))

\* Analyzer.visitFunctionDeclaration
visitFunctionDeclaration(node, a) ==
    LET previousFunction == a.currentFunction
        a1 == pushScope([a EXCEPT !.currentFunction = <<node.name>>])
        a2 == DeclareParams(node.params, node.line, a1)
        a3 == IF Thrown(a2) THEN a2 ELSE visitBlock(node.body, FALSE, a2)
    IN  IF Thrown(a3) THEN a3
        ELSE [popScope(a3) EXCEPT !.currentFunction = previousFunction]

\* Analyzer.visitReturnStatement
visitReturnStatement(node, a) ==
    IF a.currentFunction = <<>>
    THEN Throw(a, SemanticError("RETURN_OUTSIDE_FUNCTION", "", node.line))
    ELSE VisitExpressions(node.value, a)

\* Analyzer.visitCallExpression without the comparison of the argument count
visitCallExpressionAnyCount(node, a) ==
    IF node.callee \notin DOMAIN a.functions /\ ~lookupVariable(a, node.callee)
    THEN Throw(a, SemanticError("UNDEFINED_FUNCTION", node.callee, node.line))
    ELSE VisitExpressions(node.arguments, a)

\* Analyzer.visitCallExpression
visitCallExpression(node, a) ==
    IF node.callee \notin DOMAIN a.functions
    THEN IF ~lookupVariable(a, node.callee)
         THEN Throw(a, SemanticError("UNDEFINED_FUNCTION", node.callee, node.line))
         ELSE VisitExpressions(node.arguments, a)
    ELSE IF Len(node.arguments) # a.functions[node.callee]
         THEN Throw(a, SemanticError("WRONG_ARG_COUNT", node.callee, node.line))
         ELSE VisitExpressions(node.arguments, a)

\* Analyzer.visitIdentifier without the lookup
visitIdentifierUnchecked(node, a) == a

\* Analyzer.visitIdentifier
visitIdentifier(node, a) ==
    IF ~lookupVariable(a, node.name) /\ node.name \notin DOMAIN a.functions
    THEN Throw(a, SemanticError("UNDEFINED_VARIABLE", node.name, node.line))
    ELSE a

\* Analyzer.visitExpression
visitExpression(node, a) ==
    CASE node.type = "BinaryExpression" ->
            LET a1 == visitExpression(node.left, a)
            IN  IF Thrown(a1) THEN a1 ELSE visitExpression(node.right, a1)
      [] node.type = "UnaryExpression" -> visitExpression(node.operand, a)
      [] node.type = "CallExpression" -> visitCallExpression(node, a)
      [] node.type = "Literal" -> a
      [] node.type = "Identifier" -> visitIdentifier(node, a)
      [] node.type = "Grouping" -> visitExpression(node.expression, a)
      [] node.type = "Assignment" -> visitAssignment(node, a)
      [] OTHER -> a

\* Analyzer.visitStatement
visitStatement(node, a) ==
    CASE node.type = "VariableDeclaration" -> visitVariableDeclaration(node, a)
      [] node.type = "Assignment" -> visitAssignment(node, a)
      [] node.type = "PrintStatement" -> visitPrintStatement(node, a)
      [] node.type = "IfStatement" -> visitIfStatement(node, a)
      [] node.type = "WhileStatement" -> visitWhileStatement(node, a)
      [] node.type = "FunctionDeclaration" -> visitFunctionDeclaration(node, a)
      [] node.type = "ReturnStatement" -> visitReturnStatement(node, a)
      [] node.type = "ExpressionStatement" -> visitExpression(node.expression, a)
      [] node.type = "Block" -> visitBlock(node, FALSE, a)
      [] OTHER -> visitExpression(node, a)

RECURSIVE DeclareFunctions(_, _)
\* the first pass of Analyzer.visitProgram
DeclareFunctions(body, a) ==
    IF body = <<>> \/ Thrown(a) THEN a
    ELSE DeclareFunctions(Tail(body),
            IF Head(body).type = "FunctionDeclaration" THEN declareFunction(Head(body), a) ELSE a)

\* Analyzer.visitProgram
visitProgram(node, a) ==
    LET a1 == DeclareFunctions(node.body, a)
    IN  IF Thrown(a1) THEN a1 ELSE VisitStatements(node.body, a1)

\* Analyzer.analyze: the fields when it returns or throws errors[0]
analyze(node) == visitProgram(node, NewAnalyzer)

(***************************************************************************)
(* interpreter.js.  An execute/evaluate method is an operator of the node  *)
(* and the interpreter's state st = [envs, funs, environment, output] that *)
(* yields the state after the call, with the value returned in st.value,   *)
(* or, when the call throws, thrown = "RuntimeError" (the error in         *)
(* st.error) or thrown = "ReturnValue" (its value in st.value).            *)
(***************************************************************************)
\* new Environment(parent); parent is 0 for null
Environment(parent) == [values |-> EmptyMap, parent |-> parent]

\* the hard-coded iteration cap of Interpreter.executeWhileStatement
maxIterations == 100000

HasThrown(st) == st.thrown # ""
\* new RuntimeError(message) without the line
ThrowRuntimeErrorWithoutLine(st, key, arg, ln) ==
    [st EXCEPT !.thrown = "RuntimeError", !.error = RuntimeError(key, arg, 0)]

ThrowRuntimeError(st, key, arg, ln) ==
    [st EXCEPT !.thrown = "RuntimeError", !.error = RuntimeError(key, arg, ln)]
Return(st, value) == [st EXCEPT !.value = value]

\* Environment.define on the environment object e
define(st, e, name, value) ==
    [st EXCEPT !.envs[e].values = MapSet(st.envs[e].values, name, value)]

RECURSIVE Resolve(_, _, _)
\* the environment in which get and assign find name, walking the parent
\* pointers from e; 0 when the walk ends without a binding
Resolve(heap, e, name) ==
    IF name \in DOMAIN heap[e].values THEN e
    ELSE IF heap[e].parent # 0 THEN Resolve(heap, heap[e].parent, name)
    ELSE 0

\* Environment.get on the environment object e
EnvironmentGet(st, e, name, ln) ==
    LET owner == Resolve(st.envs, e, name)
    IN  IF owner # 0 THEN Return(st, st.envs[owner].values[name])
        ELSE ThrowRuntimeError(st, "UNDEFINED_VARIABLE", name, ln)

\* Environment.assign on the environment object e
EnvironmentAssign(st, e, name, value, ln) ==
    LET owner == Resolve(st.envs, e, name)
    IN  IF owner # 0 THEN define(st, owner, name, value)
        ELSE ThrowRuntimeError(st, "UNDEFINED_VARIABLE", name, ln)

\* Interpreter.isTruthy with the falsy values of JavaScript: 0 and "" too
isTruthyAsJavaScript(value) ==
    IF value.t = "null" THEN FALSE
    ELSE IF value.t = "boolean" THEN value.b
    ELSE IF value.t = "number" THEN value.n # 0
    ELSE IF value.t = "string" THEN value.s # ""
    ELSE TRUE

\* Interpreter.isTruthy
isTruthy(value) ==
    IF value.t = "null" THEN FALSE
    ELSE IF value.t = "boolean" THEN value.b
    ELSE TRUE

\* Interpreter.isEqual
isEqual(a, b) ==
    IF a.t = "null" /\ b.t = "null" THEN TRUE
    ELSE IF a.t = "null" THEN FALSE
    ELSE a = b

RECURSIVE NatToString(_)
NatToString(k) ==
    IF k < 10 THEN DigitChars[k + 1]
    ELSE NatToString(k \div 10) \o DigitChars[(k % 10) + 1]

RECURSIVE FractionDigits(_, _, _)
\* the decimal digits of rem/d, at most left of them
FractionDigits(rem, d, left) ==
    IF rem = 0 \/ left = 0 THEN ""
    ELSE DigitChars[((10 * rem) \div d) + 1] \o FractionDigits((10 * rem) % d, d, left - 1)

\* Number.prototype.toString: exact for the integers and for the fractions
\* with a terminating expansion, cut after 16 digits for the others
NumberToString(v) ==
    LET sign == IF v.n < 0 THEN "-" ELSE ""
        whole == Abs(v.n) \div v.d
        rem == Abs(v.n) % v.d
    IN  IF rem = 0 THEN sign \o NatToString(whole)
        ELSE sign \o NatToString(whole) \o "." \o FractionDigits(rem, v.d, 16)

\* Interpreter.stringify; heap is the heap of function objects
stringify(value, heap) ==
    CASE value.t = "null" -> "khaali"
      [] value.t = "boolean" -> IF value.b THEN "sach" ELSE "galat"
      [] value.t = "number" -> NumberToString(value)
      [] value.t = "function" -> "<function " \o heap[value.n].declaration.name \o ">"
      [] value.t = "string" -> value.s

RECURSIVE Join(_, _)
\* Array.prototype.join(sep)
Join(strings, sep) ==
    IF strings = <<>> THEN ""
    ELSE IF Len(strings) = 1 THEN strings[1]
    ELSE strings[1] \o sep \o Join(Tail(strings), sep)

\* the arithmetic of JavaScript numbers on the exact values
NumAdd(a, b) == Rat(a.n * b.d + b.n * a.d, a.d * b.d)
NumSub(a, b) == Rat(a.n * b.d - b.n * a.d, a.d * b.d)
NumMul(a, b) == Rat(a.n * b.n, a.d * b.d)
NumDiv(a, b) == Rat(a.n * b.d, a.d * b.n)
NumLess(a, b) == a.n * b.d < b.n * a.d
Trunc(n, d) == IF n >= 0 THEN n \div d ELSE -((-n) \div d)
\* a % b: the remainder has the sign of the dividend
NumRem(a, b) ==
    LET q == Rat(a.n * b.d, a.d * b.n)
    IN  NumSub(a, NumMul(b, NumV(Trunc(q.n, q.d), 1)))

RECURSIVE executeStatement(_, _), evaluate(_, _), ExecuteStatements(_, _),
          EvaluateAll(_, _, _), IfLoop(_, _, _), WhileLoop(_, _, _)

\* "for (const stmt of list) this.executeStatement(stmt)"
ExecuteStatements(list, st) ==
    IF list = <<>> \/ HasThrown(st) THEN st
    ELSE ExecuteStatements(Tail(list), executeStatement(Head(list), st))

\* list.map(expr => this.evaluate(expr)): the state afterwards and the values
EvaluateAll(list, st, values) ==
    IF list = <<>> \/ HasThrown(st) THEN [st |-> st, values |-> values]
    ELSE LET st1 == evaluate(Head(list), st)
         IN  EvaluateAll(Tail(list), st1, Append(values, st1.value))

\* Interpreter.executeBlock without try/finally: this.environment = previous
\* is reached only when no statement has thrown
executeBlockWithoutFinally(node, env, st) ==
    LET previous == st.environment
        st1 == ExecuteStatements(node.statements, [st EXCEPT !.environment = env])
    IN  IF HasThrown(st1) THEN st1
        ELSE [st1 EXCEPT !.environment = previous, !.value = NullV]

\* Interpreter.executeBlock; env is the Environment object the caller created
executeBlock(node, env, st) ==
    LET previous == st.environment
        st1 == ExecuteStatements(node.statements, [st EXCEPT !.environment = env])
    IN  [st1 EXCEPT !.environment = previous, !.value = IF HasThrown(st1) THEN st1.value ELSE NullV]

\* executeBlock(node, new Environment(this.environment))
ExecuteInNewEnvironment(node, st) ==
    LET st1 == [st EXCEPT !.envs = Append(st.envs, Environment(st.environment))]
    IN  executeBlock(node, Len(st1.envs), st1)

RECURSIVE BindParams(_, _, _, _, _)
\* the parameter loop of MasalaFunction.call, from index i
BindParams(params, args, i, env, st) ==
    IF i > Len(params) THEN st
    ELSE BindParams(params, args, i + 1, env,
            define(st, env, params[i], IF i <= Len(args) THEN args[i] ELSE NullV))

\* MasalaFunction.call with new Environment(interpreter.environment), the
\* caller's environment, in place of new Environment(this.closure)
MasalaFunctionCallInCallerScope(f, args, st) ==
    LET fn == st.funs[f]
        st1 == [st EXCEPT !.envs = Append(st.envs, Environment(st.environment))]
        env == Len(st1.envs)
        st2 == BindParams(fn.declaration.params, args, 1, env, st1)
        st3 == executeBlock(fn.declaration.body, env, st2)
    IN  IF st3.thrown = "ReturnValue" THEN [st3 EXCEPT !.thrown = ""]
        ELSE IF HasThrown(st3) THEN st3
        ELSE Return(st3, NullV)

\* MasalaFunction.call on the function object f
MasalaFunctionCall(f, args, st) ==
    LET fn == st.funs[f]
        st1 == [st EXCEPT !.envs = Append(st.envs, Environment(fn.closure))]
        env == Len(st1.envs)
        st2 == BindParams(fn.declaration.params, args, 1, env, st1)
        st3 == executeBlock(fn.declaration.body, env, st2)
    IN  IF st3.thrown = "ReturnValue" THEN [st3 EXCEPT !.thrown = ""]
        ELSE IF HasThrown(st3) THEN st3
        ELSE Return(st3, NullV)

\* Interpreter.executeVariableDeclaration with this.globals.define in place
\* of this.environment.define
executeVariableDeclarationInGlobals(node, st) ==
    LET st1 == evaluate(node.value, st)
    IN  IF HasThrown(st1) THEN st1 ELSE define(st1, 1, node.name, st1.value)

\* Interpreter.executeVariableDeclaration
executeVariableDeclaration(node, st) ==
    LET st1 == evaluate(node.value, st)
    IN  IF HasThrown(st1) THEN st1 ELSE define(st1, st1.environment, node.name, st1.value)

\* Interpreter.executeAssignment with this.environment.define in place of
\* this.environment.assign
executeAssignmentDefining(node, st) ==
    LET st1 == evaluate(node.value, st)
    IN  IF HasThrown(st1) THEN st1
        ELSE define(st1, st1.environment, node.name, st1.value)

\* Interpreter.executeAssignment
executeAssignment(node, st) ==
    LET st1 == evaluate(node.value, st)
    IN  IF HasThrown(st1) THEN st1
        ELSE EnvironmentAssign(st1, st1.environment, node.name, st1.value, node.line)

\* Interpreter.executePrintStatement with join('') in place of join(' ')
executePrintStatementUnspaced(node, st) ==
    LET r == EvaluateAll(node.expressions, st, <<>>)
        strings == [i \in 1..Len(r.values) |-> stringify(r.values[i], r.st.funs)]
    IN  IF HasThrown(r.st) THEN r.st
        ELSE [r.st EXCEPT !.output = Append(r.st.output, Join(strings, "")), !.value = NullV]

\* Interpreter.executePrintStatement
executePrintStatement(node, st) ==
    LET r == EvaluateAll(node.expressions, st, <<>>)
        strings == [i \in 1..Len(r.values) |-> stringify(r.values[i], r.st.funs)]
    IN  IF HasThrown(r.st) THEN r.st
        ELSE [r.st EXCEPT !.output = Append(r.st.output, Join(strings, " ")), !.value = NullV]

\* the loop over node.conditions in Interpreter.executeIfStatement
IfLoop(node, i, st) ==
    IF i > Len(node.conditions)
    THEN IF node.alternate # <<>> THEN ExecuteInNewEnvironment(node.alternate[1], st)
         ELSE Return(st, NullV)
    ELSE LET st1 == evaluate(node.conditions[i], st)
         IN  IF HasThrown(st1) THEN st1
             ELSE IF isTruthy(st1.value) THEN ExecuteInNewEnvironment(node.consequents[i], st1)
             ELSE IfLoop(node, i + 1, st1)

\* Interpreter.executeIfStatement
executeIfStatement(node, st) == IfLoop(node, 1, st)

\* the loop of Interpreter.executeWhileStatement, iterations bodies done
WhileLoop(node, iterations, st) ==
    LET st1 == evaluate(node.condition, st)
    IN  IF HasThrown(st1) THEN st1
        ELSE IF ~isTruthy(st1.value) THEN Return(st1, NullV)
        ELSE IF iterations + 1 > maxIterations
             THEN ThrowRuntimeError(st1, "LOOP_LIMIT_EXCEEDED", "", node.line)
        ELSE LET st2 == ExecuteInNewEnvironment(node.body, st1)
             IN  IF HasThrown(st2) THEN st2 ELSE WhileLoop(node, iterations + 1, st2)

\* Interpreter.executeWhileStatement
executeWhileStatement(node, st) == WhileLoop(node, 0, st)

\* Interpreter.executeFunctionDeclaration
executeFunctionDeclaration(node, st) ==
    LET st1 == [st EXCEPT !.funs = Append(st.funs,
                    [declaration |-> node, closure |-> st.environment])]
        func == FunV(Len(st1.funs))
    IN  Return(define(st1, st1.environment, node.name, func), func)

\* Interpreter.executeReturnStatement
executeReturnStatement(node, st) ==
    LET st1 == IF node.value # <<>> THEN evaluate(node.value[1], st) ELSE Return(st, NullV)
    IN  IF HasThrown(st1) THEN st1 ELSE [st1 EXCEPT !.thrown = "ReturnValue"]

\* Interpreter.executeStatement
executeStatement(node, st) ==
    CASE node.type = "VariableDeclaration" -> executeVariableDeclaration(node, st)
      [] node.type = "Assignment" -> executeAssignment(node, st)
      [] node.type = "PrintStatement" -> executePrintStatement(node, st)
      [] node.type = "IfStatement" -> executeIfStatement(node, st)
      [] node.type = "WhileStatement" -> executeWhileStatement(node, st)
      [] node.type = "FunctionDeclaration" -> executeFunctionDeclaration(node, st)
      [] node.type = "ReturnStatement" -> executeReturnStatement(node, st)
      [] node.type = "ExpressionStatement" -> evaluate(node.expression, st)
      [] node.type = "Block" -> ExecuteInNewEnvironment(node, st)
      [] OTHER -> ThrowRuntimeError(st, "UNKNOWN_STATEMENT_TYPE", node.type, node.line)

\* Interpreter.evaluateUnary
evaluateUnary(node, st) ==
    LET st1 == evaluate(node.operand, st)
        operand == st1.value
    IN  IF HasThrown(st1) THEN st1
        ELSE CASE node.operator = "-" ->
                    IF operand.t = "number" THEN Return(st1, NumV(-operand.n, operand.d))
                    ELSE ThrowRuntimeError(st1, "NOT_A_NUMBER", node.operator, node.line)
               [] node.operator = "!" -> Return(st1, BoolV(~isTruthy(operand)))
               [] OTHER -> ThrowRuntimeError(st1, "INVALID_OPERAND", node.operator, node.line)

\* Interpreter.checkNumberOperands: whether it returns without throwing
checkNumberOperands(left, right) == left.t = "number" /\ right.t = "number"

\* Interpreter.evaluateBinary whose '+' concatenates every pair that is not two
\* numbers
evaluateBinaryJoiningAnything(node, st) ==
    LET st1 == evaluate(node.left, st)
        left == st1.value
        st2 == evaluate(node.right, st1)
        right == st2.value
        op == node.operator
        NotANumber == ThrowRuntimeError(st2, "NOT_A_NUMBER", op, node.line)
    IN  IF HasThrown(st1) THEN st1
        ELSE IF HasThrown(st2) THEN st2
        ELSE CASE op = "+" ->
                    IF left.t = "number" /\ right.t = "number"
                    THEN Return(st2, NumAdd(left, right))
                    ELSE IF left.t = "string" \/ right.t = "string"
                    THEN Return(st2, StrV(stringify(left, st2.funs) \o stringify(right, st2.funs)))
                    ELSE Return(st2, StrV(stringify(left, st2.funs) \o stringify(right, st2.funs)))
               [] op = "-" ->
                    IF checkNumberOperands(left, right) THEN Return(st2, NumSub(left, right))
                    ELSE NotANumber
               [] op = "*" ->
                    IF checkNumberOperands(left, right) THEN Return(st2, NumMul(left, right))
                    ELSE NotANumber
               [] op = "/" ->
                    IF ~checkNumberOperands(left, right) THEN NotANumber
                    ELSE IF right.n = 0
                    THEN ThrowRuntimeError(st2, "DIVISION_BY_ZERO", "", node.line)
                    ELSE Return(st2, NumDiv(left, right))
               [] op = "%" ->
                    IF ~checkNumberOperands(left, right) THEN NotANumber
                    ELSE IF right.n = 0
                    THEN ThrowRuntimeError(st2, "DIVISION_BY_ZERO", "", node.line)
                    ELSE Return(st2, NumRem(left, right))
               [] op = "<" ->
                    IF checkNumberOperands(left, right) THEN Return(st2, BoolV(NumLess(left, right)))
                    ELSE NotANumber
               [] op = ">" ->
                    IF checkNumberOperands(left, right) THEN Return(st2, BoolV(NumLess(right, left)))
                    ELSE NotANumber
               [] op = "<=" ->
                    IF checkNumberOperands(left, right) THEN Return(st2, BoolV(~NumLess(right, left)))
                    ELSE NotANumber
               [] op = ">=" ->
                    IF checkNumberOperands(left, right) THEN Return(st2, BoolV(~NumLess(left, right)))
                    ELSE NotANumber
               [] op = "==" -> Return(st2, BoolV(isEqual(left, right)))
               [] op = "!=" -> Return(st2, BoolV(~isEqual(left, right)))
               [] op = "&&" -> Return(st2, BoolV(isTruthy(left) /\ isTruthy(right)))
               [] op = "||" -> Return(st2, BoolV(isTruthy(left) \/ isTruthy(right)))
               [] OTHER -> ThrowRuntimeError(st2, "INVALID_OPERAND", op, node.line)

\* Interpreter.evaluateBinary with the right operand of && and || evaluated
\* only when the left one does not decide the result
evaluateBinaryShortCircuit(node, st) ==
    LET st1 == evaluate(node.left, st)
        left == st1.value
        st2 == IF \/ (node.operator = "&&" /\ ~isTruthy(left))
                 \/ (node.operator = "||" /\ isTruthy(left))
               THEN Return(st1, BoolV(isTruthy(left)))
               ELSE evaluate(node.right, st1)
        right == st2.value
        op == node.operator
        NotANumber == ThrowRuntimeError(st2, "NOT_A_NUMBER", op, node.line)
    IN  IF HasThrown(st1) THEN st1
        ELSE IF HasThrown(st2) THEN st2
        ELSE CASE op = "+" ->
                    IF left.t = "number" /\ right.t = "number"
                    THEN Return(st2, NumAdd(left, right))
                    ELSE IF left.t = "string" \/ right.t = "string"
                    THEN Return(st2, StrV(stringify(left, st2.funs) \o stringify(right, st2.funs)))
                    ELSE ThrowRuntimeError(st2, "INVALID_OPERAND", "+", node.line)
               [] op = "-" ->
                    IF checkNumberOperands(left, right) THEN Return(st2, NumSub(left, right))
                    ELSE NotANumber
               [] op = "*" ->
                    IF checkNumberOperands(left, right) THEN Return(st2, NumMul(left, right))
                    ELSE NotANumber
               [] op = "/" ->
                    IF ~checkNumberOperands(left, right) THEN NotANumber
                    ELSE IF right.n = 0
                    THEN ThrowRuntimeError(st2, "DIVISION_BY_ZERO", "", node.line)
                    ELSE Return(st2, NumDiv(left, right))
               [] op = "%" ->
                    IF ~checkNumberOperands(left, right) THEN NotANumber
                    ELSE IF right.n = 0
                    THEN ThrowRuntimeError(st2, "DIVISION_BY_ZERO", "", node.line)
                    ELSE Return(st2, NumRem(left, right))
               [] op = "<" ->
                    IF checkNumberOperands(left, right) THEN Return(st2, BoolV(NumLess(left, right)))
                    ELSE NotANumber
               [] op = ">" ->
                    IF checkNumberOperands(left, right) THEN Return(st2, BoolV(NumLess(right, left)))
                    ELSE NotANumber
               [] op = "<=" ->
                    IF checkNumberOperands(left, right) THEN Return(st2, BoolV(~NumLess(right, left)))
                    ELSE NotANumber
               [] op = ">=" ->
                    IF checkNumberOperands(left, right) THEN Return(st2, BoolV(~NumLess(left, right)))
                    ELSE NotANumber
               [] op = "==" -> Return(st2, BoolV(isEqual(left, right)))
               [] op = "!=" -> Return(st2, BoolV(~isEqual(left, right)))
               [] op = "&&" -> Return(st2, BoolV(isTruthy(left) /\ isTruthy(right)))
               [] op = "||" -> Return(st2, BoolV(isTruthy(left) \/ isTruthy(right)))
               [] OTHER -> ThrowRuntimeError(st2, "INVALID_OPERAND", op, node.line)

\* Interpreter.evaluateBinary
evaluateBinary(node, st) ==
    LET st1 == evaluate(node.left, st)
        left == st1.value
        st2 == evaluate(node.right, st1)
        right == st2.value
        op == node.operator
        NotANumber == ThrowRuntimeError(st2, "NOT_A_NUMBER", op, node.line)
    IN  IF HasThrown(st1) THEN st1
        ELSE IF HasThrown(st2) THEN st2
        ELSE CASE op = "+" ->
                    IF left.t = "number" /\ right.t = "number"
                    THEN Return(st2, NumAdd(left, right))
                    ELSE IF left.t = "string" \/ right.t = "string"
                    THEN Return(st2, StrV(stringify(left, st2.funs) \o stringify(right, st2.funs)))
                    ELSE ThrowRuntimeError(st2, "INVALID_OPERAND", "+", node.line)
               [] op = "-" ->
                    IF checkNumberOperands(left, right) THEN Return(st2, NumSub(left, right))
                    ELSE NotANumber
               [] op = "*" ->
                    IF checkNumberOperands(left, right) THEN Return(st2, NumMul(left, right))
                    ELSE NotANumber
               [] op = "/" ->
                    IF ~checkNumberOperands(left, right) THEN NotANumber
                    ELSE IF right.n = 0
                    THEN ThrowRuntimeError(st2, "DIVISION_BY_ZERO", "", node.line)
                    ELSE Return(st2, NumDiv(left, right))
               [] op = "%" ->
                    IF ~checkNumberOperands(left, right) THEN NotANumber
                    ELSE IF right.n = 0
                    THEN ThrowRuntimeError(st2, "DIVISION_BY_ZERO", "", node.line)
                    ELSE Return(st2, NumRem(left, right))
               [] op = "<" ->
                    IF checkNumberOperands(left, right) THEN Return(st2, BoolV(NumLess(left, right)))
                    ELSE NotANumber
               [] op = ">" ->
                    IF checkNumberOperands(left, right) THEN Return(st2, BoolV(NumLess(right, left)))
                    ELSE NotANumber
               [] op = "<=" ->
                    IF checkNumberOperands(left, right) THEN Return(st2, BoolV(~NumLess(right, left)))
                    ELSE NotANumber
               [] op = ">=" ->
                    IF checkNumberOperands(left, right) THEN Return(st2, BoolV(~NumLess(left, right)))
                    ELSE NotANumber
               [] op = "==" -> Return(st2, BoolV(isEqual(left, right)))
               [] op = "!=" -> Return(st2, BoolV(~isEqual(left, right)))
               [] op = "&&" -> Return(st2, BoolV(isTruthy(left) /\ isTruthy(right)))
               [] op = "||" -> Return(st2, BoolV(isTruthy(left) \/ isTruthy(right)))
               [] OTHER -> ThrowRuntimeError(st2, "INVALID_OPERAND", op, node.line)

\* Interpreter.evaluateCall without its check of the argument count
evaluateCallWithoutCount(node, st) ==
    LET got == EnvironmentGet(st, st.environment, node.callee, node.line)
        callee == got.value
        r == EvaluateAll(node.arguments, st, <<>>)
        args == r.values
    IN  IF HasThrown(got) THEN ThrowRuntimeError(st, "UNDEFINED_FUNCTION", node.callee, node.line)
        ELSE IF HasThrown(r.st) THEN r.st
        ELSE IF callee.t # "function"
        THEN ThrowRuntimeError(r.st, "NOT_A_FUNCTION", node.callee, node.line)
        ELSE MasalaFunctionCall(callee.n, args, r.st)

\* Interpreter.evaluateCall
evaluateCall(node, st) ==
    LET got == EnvironmentGet(st, st.environment, node.callee, node.line)
        callee == got.value
        r == EvaluateAll(node.arguments, st, <<>>)
        args == r.values
    IN  IF HasThrown(got) THEN ThrowRuntimeError(st, "UNDEFINED_FUNCTION", node.callee, node.line)
        ELSE IF HasThrown(r.st) THEN r.st
        ELSE IF callee.t # "function"
        THEN ThrowRuntimeError(r.st, "NOT_A_FUNCTION", node.callee, node.line)
        ELSE IF Len(args) # Len(r.st.funs[callee.n].declaration.params)
        THEN ThrowRuntimeError(r.st, "WRONG_ARG_COUNT", node.callee, node.line)
        ELSE MasalaFunctionCall(callee.n, args, r.st)

\* Interpreter.evaluate
evaluate(node, st) ==
    CASE node.type = "Literal" -> Return(st, node.value)
      [] node.type = "Identifier" -> EnvironmentGet(st, st.environment, node.name, node.line)
      [] node.type = "Grouping" -> evaluate(node.expression, st)
      [] node.type = "UnaryExpression" -> evaluateUnary(node, st)
      [] node.type = "BinaryExpression" -> evaluateBinary(node, st)
      [] node.type = "CallExpression" -> evaluateCall(node, st)
      [] node.type = "Assignment" ->
            LET st1 == executeAssignment(node, st)
            IN  st1
      [] OTHER -> ThrowRuntimeError(st, "UNKNOWN_EXPRESSION_TYPE", node.type, node.line)

(***************************************************************************)
(* masalascript.js: MasalaScript.run(source) after Lexer.tokenize          *)
(***************************************************************************)
\* the options of the constructor that change what run() does: skipAnalysis,
\* false unless the caller passes it; and maxIterations, a key the caller may
\* pass to ask for another loop limit (0: not passed), which the spread
\* "...options" keeps in this.options
DefaultOptions == [skipAnalysis |-> FALSE, maxIterations |-> 0]

\* what run() does when this.parser.parse() has returned the node r.node
\* (r.ok) or thrown r.error
AfterParse(r) ==
    IF r.ok
    THEN /\ ast' = <<r.node>>
         /\ phase' = "analyze"
         /\ UNCHANGED result
    ELSE /\ phase' = "done"
         /\ result' = <<Failure(r.error)>> \o result
         /\ UNCHANGED ast

\* "this.ast = this.parser.parse()"
Parse ==
    /\ phase = "parse"
    /\ AfterParse(parse)
    /\ UNCHANGED <<options, source, start, current, line, column, startColumn, tokens, analyzer,
                   envs, funs, environment, output, pc>>

\* what run() does when this.analyzer.analyze() has left the analyzer's
\* fields a: the catch block, or the first two assignments of
\* Interpreter.execute
AfterAnalyze(a) ==
    /\ analyzer' = a
    /\ IF Thrown(a)
       THEN /\ phase' = "done"
            /\ result' = <<Failure(a.errors[1])>> \o result
            /\ UNCHANGED <<output, environment, pc>>
       ELSE /\ phase' = "execute"
            /\ output' = <<>>
            /\ environment' = 1
            /\ pc' = 1
            /\ UNCHANGED result

\* "if (!this.options.skipAnalysis) this.analyzer.analyze(this.ast)"
Analyze ==
    /\ phase = "analyze"
    /\ ~options.skipAnalysis
    /\ AfterAnalyze(analyze(ast[1]))
    /\ UNCHANGED <<options, source, start, current, line, column, startColumn, tokens, ast, envs, funs>>

\* "if (!this.options.skipAnalysis)" with skipAnalysis set: run() goes on to
\* Interpreter.execute without calling the analyzer
SkipAnalysis ==
    /\ phase = "analyze"
    /\ options.skipAnalysis
    /\ phase' = "execute"
    /\ output' = <<>>
    /\ environment' = 1
    /\ pc' = 1
    /\ UNCHANGED <<options, source, start, current, line, column, startColumn, tokens, ast,
                   analyzer, envs, funs, result>>

\* the object that leaves Interpreter.execute when a statement throws: the
\* RuntimeError, or the ReturnValue that no function call caught
ThrownObject(st) ==
    IF st.thrown = "RuntimeError" THEN st.error
    ELSE MasalaError("ReturnValue", "", "", 0, 0)

\* the interpreter's state, as the execute and evaluate operators take it
InterpreterState ==
    [envs |-> envs, funs |-> funs, environment |-> environment, output |-> output,
     thrown |-> "", error |-> NoError, value |-> NullV]

\* the interpreter after a statement of the program: the loop of
\* Interpreter.visitProgram goes on, or run() catches what was thrown
AfterStatement(st) ==
    /\ envs' = st.envs
    /\ funs' = st.funs
    /\ environment' = st.environment
    /\ output' = st.output
    /\ IF HasThrown(st)
       THEN /\ phase' = "done"
            /\ result' = <<Failure(ThrownObject(st))>> \o result
            /\ UNCHANGED pc
       ELSE /\ pc' = pc + 1
            /\ UNCHANGED <<phase, result>>

\* one iteration of the loop of Interpreter.visitProgram
ExecuteStatement ==
    /\ phase = "execute"
    /\ pc <= Len(ast[1].body)
    /\ AfterStatement(executeStatement(ast[1].body[pc], InterpreterState))
    /\ UNCHANGED <<options, source, start, current, line, column, startColumn, tokens, ast, analyzer>>

\* Interpreter.execute returns this.output and run() returns the success
ExecuteEnd ==
    /\ phase = "execute"
    /\ pc > Len(ast[1].body)
    /\ phase' = "done"
    /\ result' = <<Success(output)>> \o result
    /\ UNCHANGED <<options, source, start, current, line, column, startColumn, tokens, ast, analyzer,
                   envs, funs, environment, output, pc>>

(***************************************************************************)
(* The state machine: new MasalaScript() followed by run(source)           *)
(***************************************************************************)
\* the fields after the constructors of MasalaScript, Analyzer, Interpreter
\* and, on entry to run(src), of Lexer
Constructed(opts, src) ==
    /\ options = opts
    /\ source = src
    /\ phase = "lex"
    /\ start = 0
    /\ current = 0
    /\ line = 1
    /\ column = 1
    /\ startColumn = 1
    /\ tokens = <<>>
    /\ ast = <<>>
    /\ analyzer = NewAnalyzer
    /\ envs = <<Environment(0)>>
    /\ funs = <<>>
    /\ environment = 1
    /\ output = <<>>
    /\ pc = 0
    /\ result = <<>>

(***************************************************************************)
(* The sources given to run().  Each one is the sequence of characters of  *)
(* the text shown in the comment above it.                                 *)
(***************************************************************************)
\* Chal bhai suru kar
ChalBhaiSuruKar ==
    <<"C","h","a","l"," ","b","h","a","i"," ","s","u","r","u"," ","k","a","r">>
\* bas khatam karo
BasKhatamKaro ==
    <<"b","a","s"," ","k","h","a","t","a","m"," ","k","a","r","o">>
\* action!
ActionBang ==
    <<"a","c","t","i","o","n","!">>
\* paisa vasool
PaisaVasoolWords ==
    <<"p","a","i","s","a"," ","v","a","s","o","o","l">>
\* ek baat bataun:
EkBaatBataun ==
    <<"e","k"," ","b","a","a","t"," ","b","a","t","a","u","n",":"," ">>

\* the largest number literal written in a generated source
MaxOperand == 2
Operands == 0..MaxOperand
RECURSIVE NumberText(_)
\* the text of the number literal k
NumberText(k) ==
    IF k < 10 THEN <<DigitChars[k + 1]>>
    ELSE NumberText(k \div 10) \o <<DigitChars[(k % 10) + 1]>>

\* a whole program: the start keyword, the statements, the end keyword
Wrap(body) == ChalBhaiSuruKar \o <<NL>> \o body \o <<NL>> \o BasKhatamKaro

\* the two spellings of each framing keyword that the documentation gives
StartSpellings == {ActionBang, ChalBhaiSuruKar}
EndSpellings == {PaisaVasoolWords, BasKhatamKaro}
\* "<start>\n<end>": a program with no statements
FramingSource(startText, endText) == startText \o <<NL>> \o endText
FramingSources == {FramingSource(s, e) : s \in StartSpellings, e \in EndSpellings}

\* well-formed statement lists
\* ek baat bataun: 1
BodyPrint ==
    <<"e","k"," ","b","a","a","t"," ","b","a","t","a","u","n",":"," ","1">>
\* maan lo x = 1
\* ek baat bataun: x
BodyDeclarePrint ==
    <<"m","a","a","n"," ","l","o"," ","x"," ","="," ","1",NL,"e","k"," ","b","a","a","t"," ",
      "b","a","t","a","u","n",":"," ","x">>
\* climax f(a) { dialogue wapas do a }
\* ek baat bataun: f(1)
BodyFunction ==
    <<"c","l","i","m","a","x"," ","f","(","a",")"," ","{"," ","d","i","a","l","o","g","u","e",
      " ","w","a","p","a","s"," ","d","o"," ","a"," ","}",NL,"e","k"," ","b","a","a","t"," ",
      "b","a","t","a","u","n",":"," ","f","(","1",")">>
Bodies == {<<>>, BodyPrint, BodyDeclarePrint, BodyFunction}

\* sources whose first token is not the start keyword
NoStartSources ==
    {BasKhatamKaro} \cup Bodies \cup {b \o <<NL>> \o BasKhatamKaro : b \in Bodies}
\* sources that start a program and end before the end keyword, after
\* well-formed statements
NoEndSources == {ChalBhaiSuruKar \o <<NL>> \o b : b \in Bodies}
\* Chal bhai suru kar {
SrcOpenBlock ==
    <<"C","h","a","l"," ","b","h","a","i"," ","s","u","r","u"," ","k","a","r"," ","{">>
\* Chal bhai suru kar maan lo x =
SrcOpenDeclaration ==
    <<"C","h","a","l"," ","b","h","a","i"," ","s","u","r","u"," ","k","a","r"," ","m","a","a",
      "n"," ","l","o"," ","x"," ","=">>
\* Chal bhai suru kar
\* ek baat bataun: 1
\* }
SrcStrayBrace ==
    <<"C","h","a","l"," ","b","h","a","i"," ","s","u","r","u"," ","k","a","r",NL,"e","k"," ",
      "b","a","a","t"," ","b","a","t","a","u","n",":"," ","1",NL,"}">>
\* sources that start a program and end before the end keyword, inside or
\* after a malformed statement
BrokenNoEndSources == {SrcOpenBlock, SrcOpenDeclaration, SrcStrayBrace}
\* Chal bhai suru kar
\* bas khatam karo
\* ek baat bataun: 1
SrcTrailingStatement ==
    <<"C","h","a","l"," ","b","h","a","i"," ","s","u","r","u"," ","k","a","r",NL,"b","a","s",
      " ","k","h","a","t","a","m"," ","k","a","r","o",NL,"e","k"," ","b","a","a","t"," ","b",
      "a","t","a","u","n",":"," ","1">>
FramingErrorSources ==
    NoStartSources \cup NoEndSources \cup BrokenNoEndSources \cup {SrcTrailingStatement}

\* programs that reach each stage of run() and each kind of error
\* Chal bhai suru kar
\* // count
\* maan lo i = 0
\* jab tak hai jaan (i < 3) {
\*     i = i + 1
\*     agar kismat rahi (i == 2) { ek baat bataun: "two" } nahi to (i == 3) { ek baat bataun: "three" } warna { ek baat bataun: i }
\* }
\* bas khatam karo
SrcLoop ==
    <<"C","h","a","l"," ","b","h","a","i"," ","s","u","r","u"," ","k","a","r",NL,"/","/"," ",
      "c","o","u","n","t",NL,"m","a","a","n"," ","l","o"," ","i"," ","="," ","0",NL,"j","a",
      "b"," ","t","a","k"," ","h","a","i"," ","j","a","a","n"," ","(","i"," ","<"," ","3",")",
      " ","{",NL,TAB,"i"," ","="," ","i"," ","+"," ","1",NL,TAB,"a","g","a","r"," ","k","i",
      "s","m","a","t"," ","r","a","h","i"," ","(","i"," ","=","="," ","2",")"," ","{"," ","e",
      "k"," ","b","a","a","t"," ","b","a","t","a","u","n",":"," ",QUOTE,"t","w","o",QUOTE," ",
      "}"," ","n","a","h","i"," ","t","o"," ","(","i"," ","=","="," ","3",")"," ","{"," ","e",
      "k"," ","b","a","a","t"," ","b","a","t","a","u","n",":"," ",QUOTE,"t","h","r","e","e",
      QUOTE," ","}"," ","w","a","r","n","a"," ","{"," ","e","k"," ","b","a","a","t"," ","b",
      "a","t","a","u","n",":"," ","i"," ","}",NL,"}",NL,"b","a","s"," ","k","h","a","t","a",
      "m"," ","k","a","r","o">>
\* Chal bhai suru kar
\* ek baat bataun: "a\tb" + 1, 7 / 2, -7 % 3, sach && khaali, 1 <= 2 || galat
\* bas khatam karo
SrcStrings ==
    <<"C","h","a","l"," ","b","h","a","i"," ","s","u","r","u"," ","k","a","r",NL,"e","k"," ",
      "b","a","a","t"," ","b","a","t","a","u","n",":"," ",QUOTE,"a",BACKSLASH,"t","b",QUOTE,
      " ","+"," ","1",","," ","7"," ","/"," ","2",","," ","-","7"," ","%"," ","3",","," ","s",
      "a","c","h"," ","&","&"," ","k","h","a","a","l","i",","," ","1"," ","<","="," ","2"," ",
      "|","|"," ","g","a","l","a","t",NL,"b","a","s"," ","k","h","a","t","a","m"," ","k","a",
      "r","o">>
\* Chal bhai suru kar
\* ek baat bataun: 1 # 2
\* bas khatam karo
SrcUnexpectedCharacter ==
    <<"C","h","a","l"," ","b","h","a","i"," ","s","u","r","u"," ","k","a","r",NL,"e","k"," ",
      "b","a","a","t"," ","b","a","t","a","u","n",":"," ","1"," ","#"," ","2",NL,"b","a","s",
      " ","k","h","a","t","a","m"," ","k","a","r","o">>
\* Chal bhai suru kar
\* ek baat bataun: 1 & 2
\* bas khatam karo
SrcLoneAmpersand ==
    <<"C","h","a","l"," ","b","h","a","i"," ","s","u","r","u"," ","k","a","r",NL,"e","k"," ",
      "b","a","a","t"," ","b","a","t","a","u","n",":"," ","1"," ","&"," ","2",NL,"b","a","s",
      " ","k","h","a","t","a","m"," ","k","a","r","o">>
\* Chal bhai suru kar
\* ek baat bataun: "abc
\* bas khatam karo
SrcUnterminatedString ==
    <<"C","h","a","l"," ","b","h","a","i"," ","s","u","r","u"," ","k","a","r",NL,"e","k"," ",
      "b","a","a","t"," ","b","a","t","a","u","n",":"," ",QUOTE,"a","b","c",NL,"b","a","s",
      " ","k","h","a","t","a","m"," ","k","a","r","o">>
\* Chal bhai suru kar
\* ek baat bataun: "before"
\* ek baat bataun: 1, 1 / 0
\* ek baat bataun: "after"
\* bas khatam karo
SrcDivisionByZero ==
    <<"C","h","a","l"," ","b","h","a","i"," ","s","u","r","u"," ","k","a","r",NL,"e","k"," ",
      "b","a","a","t"," ","b","a","t","a","u","n",":"," ",QUOTE,"b","e","f","o","r","e",QUOTE,
      NL,"e","k"," ","b","a","a","t"," ","b","a","t","a","u","n",":"," ","1",","," ","1"," ",
      "/"," ","0",NL,"e","k"," ","b","a","a","t"," ","b","a","t","a","u","n",":"," ",QUOTE,
      "a","f","t","e","r",QUOTE,NL,"b","a","s"," ","k","h","a","t","a","m"," ","k","a","r",
      "o">>
\* Chal bhai suru kar
\* ek baat bataun: "before"
\* ek baat bataun: y
\* bas khatam karo
SrcUndefinedVariable ==
    <<"C","h","a","l"," ","b","h","a","i"," ","s","u","r","u"," ","k","a","r",NL,"e","k"," ",
      "b","a","a","t"," ","b","a","t","a","u","n",":"," ",QUOTE,"b","e","f","o","r","e",QUOTE,
      NL,"e","k"," ","b","a","a","t"," ","b","a","t","a","u","n",":"," ","y",NL,"b","a","s",
      " ","k","h","a","t","a","m"," ","k","a","r","o">>
\* Chal bhai suru kar
\* agar kismat rahi (sach) { dialogue wapas do 1 }
\* bas khatam karo
SrcTopLevelReturn ==
    <<"C","h","a","l"," ","b","h","a","i"," ","s","u","r","u"," ","k","a","r",NL,"a","g","a",
      "r"," ","k","i","s","m","a","t"," ","r","a","h","i"," ","(","s","a","c","h",")"," ","{",
      " ","d","i","a","l","o","g","u","e"," ","w","a","p","a","s"," ","d","o"," ","1"," ","}",
      NL,"b","a","s"," ","k","h","a","t","a","m"," ","k","a","r","o">>
SampleSources ==
    {SrcLoop, SrcStrings, SrcUnexpectedCharacter, SrcLoneAmpersand,
     SrcUnterminatedString, SrcDivisionByZero, SrcUndefinedVariable, SrcTopLevelReturn}

\* the arguments of the generated print statements: the text of a literal
\* and the line that printing its value gives
PrintCases ==
    {[text |-> NumberText(k), shown |-> Str(NumberText(k))] : k \in Operands}
    \cup {[text |-> <<QUOTE, "a", " ", "b", QUOTE>>, shown |-> "a b"],
          [text |-> <<QUOTE, QUOTE>>, shown |-> ""],
          [text |-> <<"s", "a", "c", "h">>, shown |-> "sach"],
          [text |-> <<"g", "a", "l", "a", "t">>, shown |-> "galat"],
          [text |-> <<"k", "h", "a", "a", "l", "i">>, shown |-> "khaali"]}
\* Chal bhai suru kar
\* ek baat bataun: <a>
\* bas khatam karo
PrintSource1(a) == Wrap(EkBaatBataun \o a.text)
\* Chal bhai suru kar
\* ek baat bataun: <a>, <b>
\* bas khatam karo
PrintSource2(a, b) == Wrap(EkBaatBataun \o a.text \o <<",", " ">> \o b.text)
PrintSources ==
    {PrintSource1(a) : a \in PrintCases} \cup {PrintSource2(a, b) : a, b \in PrintCases}
\* Chal bhai suru kar
\* climax f() { ek baat bataun: "f"
\*  dialogue wapas do 1 }
\* climax g() { ek baat bataun: "g"
\*  dialogue wapas do 2 }
\* ek baat bataun: f(), g()
\* maan lo x = g()
\* ek baat bataun: g(), f(), "x"
\* bas khatam karo
SrcPrintOrder ==
    <<"C","h","a","l"," ","b","h","a","i"," ","s","u","r","u"," ","k","a","r",NL,"c","l","i",
      "m","a","x"," ","f","(",")"," ","{"," ","e","k"," ","b","a","a","t"," ","b","a","t","a",
      "u","n",":"," ",QUOTE,"f",QUOTE,NL," ","d","i","a","l","o","g","u","e"," ","w","a","p",
      "a","s"," ","d","o"," ","1"," ","}",NL,"c","l","i","m","a","x"," ","g","(",")"," ","{",
      " ","e","k"," ","b","a","a","t"," ","b","a","t","a","u","n",":"," ",QUOTE,"g",QUOTE,NL,
      " ","d","i","a","l","o","g","u","e"," ","w","a","p","a","s"," ","d","o"," ","2"," ","}",
      NL,"e","k"," ","b","a","a","t"," ","b","a","t","a","u","n",":"," ","f","(",")",","," ",
      "g","(",")",NL,"m","a","a","n"," ","l","o"," ","x"," ","="," ","g","(",")",NL,"e","k",
      " ","b","a","a","t"," ","b","a","t","a","u","n",":"," ","g","(",")",","," ","f","(",")",
      ","," ",QUOTE,"x",QUOTE,NL,"b","a","s"," ","k","h","a","t","a","m"," ","k","a","r","o">>

\* the largest number of parameters and of arguments of the generated calls
MaxParams == 2
ParamNames == <<"a", "b", "c", "d">>
RECURSIVE ParamText(_), ArgText(_)
\* the parameter list a, b, ... of p names
ParamText(p) ==
    IF p = 0 THEN <<>>
    ELSE IF p = 1 THEN <<ParamNames[1]>>
    ELSE ParamText(p - 1) \o <<",", " ", ParamNames[p]>>
\* the argument list 1, 2, ... of k numbers
ArgText(k) ==
    IF k = 0 THEN <<>>
    ELSE IF k = 1 THEN NumberText(1)
    ELSE ArgText(k - 1) \o <<",", " ">> \o NumberText(k)
\* climax f(<p parameters>) { dialogue wapas do 1 }
DeclareF(p) ==
    <<"c","l","i","m","a","x"," ","f","(">> \o ParamText(p)
    \o <<")"," ","{"," ","d","i","a","l","o","g","u","e"," ","w","a","p","a","s"," ","d","o"," ",
      "1"," ","}">>
\* f(<k arguments>)
CallF(k) == <<"f", "(">> \o ArgText(k) \o <<")">>
PrintP == <<"e","k"," ","b","a","a","t"," ","b","a","t","a","u","n",":"," ",QUOTE,"p",QUOTE>>
ArityPlaces == {"before", "after", "inner", "loop"}
\* a program that declares f with p parameters and calls it with k arguments:
\*   before:  f(..)  climax f(..) {..}
\*   after:   climax f(..) {..}  ek baat bataun: "p"  f(..)
\*   inner:   ek baat bataun: "p"  climax f(..) {..}
\*            climax g() { agar kismat rahi (galat) { ek baat bataun: f(..) } }
\*   loop:    ek baat bataun: "p"
\*            jab tak hai jaan (galat) { maan lo y = 1 + f(..) }  climax f(..) {..}
ArityCallSource(p, k, place) ==
    Wrap(CASE place = "before" -> CallF(k) \o <<NL>> \o DeclareF(p)
           [] place = "after" -> DeclareF(p) \o <<NL>> \o PrintP \o <<NL>> \o CallF(k)
           [] place = "inner" ->
                PrintP \o <<NL>> \o DeclareF(p) \o <<NL>>
                \o <<"c","l","i","m","a","x"," ","g","(",")"," ","{"," ","a","g","a","r"," ","k","i","s","m",
                  "a","t"," ","r","a","h","i"," ","(","g","a","l","a","t",")"," ","{"," ","e","k"," ","b",
                  "a","a","t"," ","b","a","t","a","u","n",":"," ">>
                \o CallF(k) \o <<" ", "}", " ", "}">>
           [] place = "loop" ->
                PrintP \o <<NL>>
                \o <<"j","a","b"," ","t","a","k"," ","h","a","i"," ","j","a","a","n"," ","(","g","a","l","a",
                  "t",")"," ","{"," ","m","a","a","n"," ","l","o"," ","y"," ","="," ","1"," ","+"," ">>
                \o CallF(k) \o <<" ", "}", NL>> \o DeclareF(p))
ArityCallSources ==
    {ArityCallSource(p, k, place) : p \in 0..MaxParams, k \in 0..MaxParams, place \in ArityPlaces}

\* the keywords that do not end in ! or :
PlainKeywords ==
    {Keywords[i].text : i \in {j \in 1..Len(Keywords) :
        Keywords[j].text[Len(Keywords[j].text)] \notin {"!", ":"}}}
\* identifier characters that continue a word
BoundaryChars == {"x", "Z", "7", "_"}
\* a keyword's text run into an identifier character, e.g. sachx, maan lo_
BoundarySources == {text \o <<c>> : text \in PlainKeywords, c \in BoundaryChars}
\* Chal bhai suru kar
\* maan lo maanager = 1
\* maan lo SACHin = 2
\* maan lo khaali_1 = 3
\* ek baat bataun: maanager, SACHin, khaali_1
\* bas khatam karo
SrcKeywordPrefixNames ==
    <<"C","h","a","l"," ","b","h","a","i"," ","s","u","r","u"," ","k","a","r",NL,"m","a","a",
      "n"," ","l","o"," ","m","a","a","n","a","g","e","r"," ","="," ","1",NL,"m","a","a","n",
      " ","l","o"," ","S","A","C","H","i","n"," ","="," ","2",NL,"m","a","a","n"," ","l","o",
      " ","k","h","a","a","l","i","_","1"," ","="," ","3",NL,"e","k"," ","b","a","a","t"," ",
      "b","a","t","a","u","n",":"," ","m","a","a","n","a","g","e","r",","," ","S","A","C","H",
      "i","n",","," ","k","h","a","a","l","i","_","1",NL,"b","a","s"," ","k","h","a","t","a",
      "m"," ","k","a","r","o">>

\* CHAL BHAI SURU KAR
\* MAAN LO x = SACH
\* EK BAAT BATAUN: x
\* BAS KHATAM KARO
SrcUpperCase ==
    <<"C","H","A","L"," ","B","H","A","I"," ","S","U","R","U"," ","K","A","R",NL,"M","A","A",
      "N"," ","L","O"," ","x"," ","="," ","S","A","C","H",NL,"E","K"," ","B","A","A","T"," ",
      "B","A","T","A","U","N",":"," ","x",NL,"B","A","S"," ","K","H","A","T","A","M"," ","K",
      "A","R","O">>
\* the same with U+212A KELVIN SIGN as the first character of khaali:
\* Chal bhai suru kar
\* ek baat bataun: <U+212A>haali
\* bas khatam karo
SrcKelvin ==
    <<"C","h","a","l"," ","b","h","a","i"," ","s","u","r","u"," ","k","a","r",NL,"e","k"," ",
      "b","a","a","t"," ","b","a","t","a","u","n",":"," ",KELVIN,"h","a","a","l","i",NL,"b",
      "a","s"," ","k","h","a","t","a","m"," ","k","a","r","o">>

\* the binary operators: as written, and the level of the claimed ladder
\* (1 binds loosest)
BinaryOperators ==
    {[lexeme |-> "||", text |-> <<"|","|">>, level |-> 1],
     [lexeme |-> "&&", text |-> <<"&","&">>, level |-> 2],
     [lexeme |-> "==", text |-> <<"=","=">>, level |-> 3],
     [lexeme |-> "!=", text |-> <<"!","=">>, level |-> 3],
     [lexeme |-> "<", text |-> <<"<">>, level |-> 4],
     [lexeme |-> ">", text |-> <<">">>, level |-> 4],
     [lexeme |-> "<=", text |-> <<"<","=">>, level |-> 4],
     [lexeme |-> ">=", text |-> <<">","=">>, level |-> 4],
     [lexeme |-> "+", text |-> <<"+">>, level |-> 5],
     [lexeme |-> "-", text |-> <<"-">>, level |-> 5],
     [lexeme |-> "*", text |-> <<"*">>, level |-> 6],
     [lexeme |-> "/", text |-> <<"/">>, level |-> 6],
     [lexeme |-> "%", text |-> <<"%">>, level |-> 6]}
\* Chal bhai suru kar
\* ek baat bataun: 7 <op1> 2 <op2> 1
\* bas khatam karo
OperatorPairSource(op1, op2) ==
    Wrap(EkBaatBataun \o <<"7", " ">> \o op1.text \o <<" ", "2", " ">> \o op2.text \o <<" ", "1">>)
OperatorPairSources == {OperatorPairSource(op1, op2) : op1, op2 \in BinaryOperators}
ArithmeticForms == {"a + b * c", "(a + b) * c", "a - b - c", "a - (b - c)"}
\* Chal bhai suru kar
\* ek baat bataun: <form, with the numbers a, b and c>
\* bas khatam karo
ArithmeticSource(form, a, b, c) ==
    LET ta == NumberText(a)
        tb == NumberText(b)
        tc == NumberText(c)
    IN  Wrap(EkBaatBataun \o
            CASE form = "a + b * c" -> ta \o <<" ", "+", " ">> \o tb \o <<" ", "*", " ">> \o tc
              [] form = "(a + b) * c" ->
                    <<"(">> \o ta \o <<" ", "+", " ">> \o tb \o <<")", " ", "*", " ">> \o tc
              [] form = "a - b - c" -> ta \o <<" ", "-", " ">> \o tb \o <<" ", "-", " ">> \o tc
              [] form = "a - (b - c)" ->
                    ta \o <<" ", "-", " ", "(">> \o tb \o <<" ", "-", " ">> \o tc \o <<")">>)
ArithmeticSources ==
    {ArithmeticSource(form, a, b, c) : form \in ArithmeticForms, a, b, c \in Operands}

\* the conditions of the generated if statements: an expression and whether
\* its value is one of unit and false or another value
TruthCases ==
    {[text |-> NumberText(k), falsy |-> FALSE] : k \in Operands}
    \cup {[text |-> <<"k", "h", "a", "a", "l", "i">>, falsy |-> TRUE],
          [text |-> <<"g", "a", "l", "a", "t">>, falsy |-> TRUE],
          [text |-> <<"s", "a", "c", "h">>, falsy |-> FALSE],
          [text |-> <<QUOTE, QUOTE>>, falsy |-> FALSE],
          [text |-> <<QUOTE, "g", "a", "l", "a", "t", QUOTE>>, falsy |-> FALSE],
          [text |-> <<"f">>, falsy |-> FALSE],
          [text |-> <<"f", "(", ")">>, falsy |-> FALSE],
          [text |-> <<"g", "(", ")">>, falsy |-> TRUE]}
\* Chal bhai suru kar
\* climax f() { dialogue wapas do 0 }
\* climax g() { }
\* agar kismat rahi (<V>) { ek baat bataun: "T" } warna { ek baat bataun: "F" }
\* maan lo v = <V>
\* ek baat bataun: !v, !!v
\* agar kismat rahi (v) { ek baat bataun: "only" }
\* bas khatam karo
TruthSource(case) ==
    Wrap(<<"c","l","i","m","a","x"," ","f","(",")"," ","{"," ","d","i","a","l","o","g","u","e"," ",
          "w","a","p","a","s"," ","d","o"," ","0"," ","}",NL,"c","l","i","m","a","x"," ","g","(",
          ")"," ","{"," ","}",NL,"a","g","a","r"," ","k","i","s","m","a","t"," ","r","a","h","i",
          " ","(">>
         \o case.text
         \o <<")"," ","{"," ","e","k"," ","b","a","a","t"," ","b","a","t","a","u","n",":"," ",QUOTE,
          "T",QUOTE," ","}"," ","w","a","r","n","a"," ","{"," ","e","k"," ","b","a","a","t"," ",
          "b","a","t","a","u","n",":"," ",QUOTE,"F",QUOTE," ","}",NL,"m","a","a","n"," ","l","o",
          " ","v"," ","="," ">>
         \o case.text
         \o <<NL,"e","k"," ","b","a","a","t"," ","b","a","t","a","u","n",":"," ","!","v",","," ","!",
          "!","v",NL,"a","g","a","r"," ","k","i","s","m","a","t"," ","r","a","h","i"," ","(","v",
          ")"," ","{"," ","e","k"," ","b","a","a","t"," ","b","a","t","a","u","n",":"," ",QUOTE,
          "o","n","l","y",QUOTE," ","}">>)
TruthSources == {TruthSource(case) : case \in TruthCases}

\* the captured variable is assigned after the declaration:
\* Chal bhai suru kar
\* maan lo y = 1
\* climax f() { dialogue wapas do y }
\* y = 2
\* ek baat bataun: f()
\* bas khatam karo
SrcCallTimeValue ==
    <<"C","h","a","l"," ","b","h","a","i"," ","s","u","r","u"," ","k","a","r",NL,"m","a","a",
      "n"," ","l","o"," ","y"," ","="," ","1",NL,"c","l","i","m","a","x"," ","f","(",")"," ",
      "{"," ","d","i","a","l","o","g","u","e"," ","w","a","p","a","s"," ","d","o"," ","y"," ",
      "}",NL,"y"," ","="," ","2",NL,"e","k"," ","b","a","a","t"," ","b","a","t","a","u","n",
      ":"," ","f","(",")",NL,"b","a","s"," ","k","h","a","t","a","m"," ","k","a","r","o">>
\* the caller has a local of the name the callee reads:
\* Chal bhai suru kar
\* maan lo y = 1
\* climax f() { dialogue wapas do y }
\* climax g() { maan lo y = 5
\*  dialogue wapas do f() }
\* ek baat bataun: g()
\* bas khatam karo
SrcCallerScope ==
    <<"C","h","a","l"," ","b","h","a","i"," ","s","u","r","u"," ","k","a","r",NL,"m","a","a",
      "n"," ","l","o"," ","y"," ","="," ","1",NL,"c","l","i","m","a","x"," ","f","(",")"," ",
      "{"," ","d","i","a","l","o","g","u","e"," ","w","a","p","a","s"," ","d","o"," ","y"," ",
      "}",NL,"c","l","i","m","a","x"," ","g","(",")"," ","{"," ","m","a","a","n"," ","l","o",
      " ","y"," ","="," ","5",NL," ","d","i","a","l","o","g","u","e"," ","w","a","p","a","s",
      " ","d","o"," ","f","(",")"," ","}",NL,"e","k"," ","b","a","a","t"," ","b","a","t","a",
      "u","n",":"," ","g","(",")",NL,"b","a","s"," ","k","h","a","t","a","m"," ","k","a","r",
      "o">>
\* the name the callee reads exists at the call only in the caller (the analyzer
\* leaves the z of the bare block in its global scope, the interpreter does not):
\* Chal bhai suru kar
\* { maan lo z = 1 }
\* climax f() { dialogue wapas do z }
\* climax g() { maan lo z = 5
\*  dialogue wapas do f() }
\* ek baat bataun: g()
\* bas khatam karo
SrcCallerLocal ==
    <<"C","h","a","l"," ","b","h","a","i"," ","s","u","r","u"," ","k","a","r",NL,"{"," ","m",
      "a","a","n"," ","l","o"," ","z"," ","="," ","1"," ","}",NL,"c","l","i","m","a","x"," ",
      "f","(",")"," ","{"," ","d","i","a","l","o","g","u","e"," ","w","a","p","a","s"," ","d",
      "o"," ","z"," ","}",NL,"c","l","i","m","a","x"," ","g","(",")"," ","{"," ","m","a","a",
      "n"," ","l","o"," ","z"," ","="," ","5",NL," ","d","i","a","l","o","g","u","e"," ","w",
      "a","p","a","s"," ","d","o"," ","f","(",")"," ","}",NL,"e","k"," ","b","a","a","t"," ",
      "b","a","t","a","u","n",":"," ","g","(",")",NL,"b","a","s"," ","k","h","a","t","a","m",
      " ","k","a","r","o">>
\* the function made by a call is called after that call has returned:
\* Chal bhai suru kar
\* maan lo inc = khaali
\* climax make() { maan lo n = 0
\*  climax inc() { n = n + 1
\*  dialogue wapas do n }
\*  dialogue wapas do inc }
\* maan lo c = make()
\* maan lo d = make()
\* ek baat bataun: c(), c(), d()
\* bas khatam karo
SrcCounter ==
    <<"C","h","a","l"," ","b","h","a","i"," ","s","u","r","u"," ","k","a","r",NL,"m","a","a",
      "n"," ","l","o"," ","i","n","c"," ","="," ","k","h","a","a","l","i",NL,"c","l","i","m",
      "a","x"," ","m","a","k","e","(",")"," ","{"," ","m","a","a","n"," ","l","o"," ","n"," ",
      "="," ","0",NL," ","c","l","i","m","a","x"," ","i","n","c","(",")"," ","{"," ","n"," ",
      "="," ","n"," ","+"," ","1",NL," ","d","i","a","l","o","g","u","e"," ","w","a","p","a",
      "s"," ","d","o"," ","n"," ","}",NL," ","d","i","a","l","o","g","u","e"," ","w","a","p",
      "a","s"," ","d","o"," ","i","n","c"," ","}",NL,"m","a","a","n"," ","l","o"," ","c"," ",
      "="," ","m","a","k","e","(",")",NL,"m","a","a","n"," ","l","o"," ","d"," ","="," ","m",
      "a","k","e","(",")",NL,"e","k"," ","b","a","a","t"," ","b","a","t","a","u","n",":"," ",
      "c","(",")",","," ","c","(",")",","," ","d","(",")",NL,"b","a","s"," ","k","h","a","t",
      "a","m"," ","k","a","r","o">>
ClosureSources == {SrcCallTimeValue, SrcCallerScope, SrcCallerLocal, SrcCounter}

\* Chal bhai suru kar
\* maan lo inner = khaali
\* maan lo x = <A>
\* climax f() { maan lo x = <B>
\*  ek baat bataun: x }
\* climax g(x) { x = x + 1
\*  ek baat bataun: x }
\* climax outer() { maan lo x = 7
\*  climax inner() { maan lo x = <B> }
\*  inner()
\*  dialogue wapas do x }
\* f()
\* g(<B>)
\* ek baat bataun: outer()
\* ek baat bataun: x
\* bas khatam karo
ScopeSource(A, B) ==
    Wrap(<<"m","a","a","n"," ","l","o"," ","i","n","n","e","r"," ","="," ","k","h","a","a","l","i",
          NL,"m","a","a","n"," ","l","o"," ","x"," ","="," ">> \o NumberText(A)
         \o <<NL,"c","l","i","m","a","x"," ","f","(",")"," ","{"," ","m","a","a","n"," ","l","o"," ",
          "x"," ","="," ">> \o NumberText(B)
         \o <<NL," ","e","k"," ","b","a","a","t"," ","b","a","t","a","u","n",":"," ","x"," ","}",NL,
          "c","l","i","m","a","x"," ","g","(","x",")"," ","{"," ","x"," ","="," ","x"," ","+"," ",
          "1",NL," ","e","k"," ","b","a","a","t"," ","b","a","t","a","u","n",":"," ","x"," ","}",
          NL,"c","l","i","m","a","x"," ","o","u","t","e","r","(",")"," ","{"," ","m","a","a","n",
          " ","l","o"," ","x"," ","="," ","7",NL," ","c","l","i","m","a","x"," ","i","n","n","e",
          "r","(",")"," ","{"," ","m","a","a","n"," ","l","o"," ","x"," ","="," ">>
         \o NumberText(B)
         \o <<" ","}",NL," ","i","n","n","e","r","(",")",NL," ","d","i","a","l","o","g","u","e"," ",
          "w","a","p","a","s"," ","d","o"," ","x"," ","}",NL,"f","(",")",NL,"g","(">> \o NumberText(B)
         \o <<")",NL,"e","k"," ","b","a","a","t"," ","b","a","t","a","u","n",":"," ","o","u","t","e",
          "r","(",")",NL,"e","k"," ","b","a","a","t"," ","b","a","t","a","u","n",":"," ","x">>)
ScopeSources == {ScopeSource(A, B) : A, B \in Operands}

DivisionOperators == {"/", "%"}
\* spellings of an expression whose value is the number 0
ZeroTexts == {<<"0">>, <<"-", "0">>, <<"(", "1", " ", "-", " ", "1", ")">>}
DivisionPlaces == {"print", "declare", "condition", "return"}
\* <n> <op> <zero>
DivisionText(op, n, zero) == NumberText(n) \o <<" ", op, " ">> \o zero
\* Chal bhai suru kar
\* ek baat bataun: "before"
\* <the statement with the division on line 3; in a function body on line 4>
\* ek baat bataun: "after"
\* bas khatam karo
\*   print:      ek baat bataun: "x", <division>
\*   declare:    maan lo q = <division>
\*   condition:  agar kismat rahi (<division>) { ek baat bataun: "in" }
\*   return:     climax f() { ek baat bataun: "f"
\*                dialogue wapas do <division> }
\*               ek baat bataun: f()
DivisionSource(op, n, zero, place) ==
    Wrap(<<"e","k"," ","b","a","a","t"," ","b","a","t","a","u","n",":"," ",QUOTE,"b","e","f","o",
          "r","e",QUOTE,NL>>
         \o (CASE place = "print" ->
                    <<"e","k"," ","b","a","a","t"," ","b","a","t","a","u","n",":"," ",QUOTE,"x",QUOTE,","," ">> \o DivisionText(op, n, zero)
               [] place = "declare" ->
                    <<"m","a","a","n"," ","l","o"," ","q"," ","="," ">> \o DivisionText(op, n, zero)
               [] place = "condition" ->
                    <<"a","g","a","r"," ","k","i","s","m","a","t"," ","r","a","h","i"," ","(">> \o DivisionText(op, n, zero)
                    \o <<")"," ","{"," ","e","k"," ","b","a","a","t"," ","b","a","t","a","u","n",":"," ",QUOTE,
                      "i","n",QUOTE," ","}">>
               [] place = "return" ->
                    <<"c","l","i","m","a","x"," ","f","(",")"," ","{"," ","e","k"," ","b","a","a","t"," ","b",
                      "a","t","a","u","n",":"," ",QUOTE,"f",QUOTE,NL," ","d","i","a","l","o","g","u","e"," ",
                      "w","a","p","a","s"," ","d","o"," ">>
                    \o DivisionText(op, n, zero)
                    \o <<" ","}",NL,"e","k"," ","b","a","a","t"," ","b","a","t","a","u","n",":"," ","f","(",")">>)
         \o <<NL,"e","k"," ","b","a","a","t"," ","b","a","t","a","u","n",":"," ",QUOTE,"a","f","t",
          "e","r",QUOTE>>)
DivisionSources ==
    {DivisionSource(op, n, <<"0">>, place) : op \in DivisionOperators, n \in Operands,
                                             place \in DivisionPlaces}
    \cup {DivisionSource(op, 1, zero, "print") : op \in DivisionOperators, zero \in ZeroTexts}

\* the operands of the generated additions: the text, the kind of its value
\* and the value's stringification
PlusOperands ==
    {[text |-> NumberText(k), kind |-> "number", shown |-> Str(NumberText(k)), number |-> k]
        : k \in Operands}
    \cup {[text |-> <<QUOTE,"C","o","u","n","t",":"," ",QUOTE>>,
           kind |-> "string", shown |-> "Count: ", number |-> 0],
          [text |-> <<QUOTE, QUOTE>>, kind |-> "string", shown |-> "", number |-> 0],
          [text |-> <<"s", "a", "c", "h">>, kind |-> "other", shown |-> "sach", number |-> 0],
          [text |-> <<"k", "h", "a", "a", "l", "i">>, kind |-> "other", shown |-> "khaali",
           number |-> 0],
          [text |-> <<"f">>, kind |-> "other", shown |-> "<function f>", number |-> 0]}
\* Chal bhai suru kar
\* climax f() { }
\* ek baat bataun: <l> + <r>
\* bas khatam karo
PlusSource(l, r) ==
    Wrap(<<"c","l","i","m","a","x"," ","f","(",")"," ","{"," ","}",NL,"e","k"," ","b","a","a","t",
          " ","b","a","t","a","u","n",":"," ">>
         \o l.text \o <<" ", "+", " ">> \o r.text)
PlusSources == {PlusSource(l, r) : l, r \in PlusOperands}

\* the largest number of iterations of the generated loops
MaxLoops == 3
\* Chal bhai suru kar
\* maan lo i = 0
\* climax c() { ek baat bataun: "c"
\*  dialogue wapas do i < <k> }
\* jab tak hai jaan (c()) { maan lo t = i
\*  ek baat bataun: t
\*  i = i + 1 }
\* ek baat bataun: "end"
\* bas khatam karo
LoopSource(k) ==
    Wrap(<<"m","a","a","n"," ","l","o"," ","i"," ","="," ","0",NL,"c","l","i","m","a","x"," ","c",
          "(",")"," ","{"," ","e","k"," ","b","a","a","t"," ","b","a","t","a","u","n",":"," ",
          QUOTE,"c",QUOTE,NL," ","d","i","a","l","o","g","u","e"," ","w","a","p","a","s"," ","d",
          "o"," ","i"," ","<"," ">>
         \o NumberText(k)
         \o <<" ","}",NL,"j","a","b"," ","t","a","k"," ","h","a","i"," ","j","a","a","n"," ","(","c",
          "(",")",")"," ","{"," ","m","a","a","n"," ","l","o"," ","t"," ","="," ","i",NL," ","e",
          "k"," ","b","a","a","t"," ","b","a","t","a","u","n",":"," ","t",NL," ","i"," ","="," ",
          "i"," ","+"," ","1"," ","}",NL,"e","k"," ","b","a","a","t"," ","b","a","t","a","u","n",
          ":"," ",QUOTE,"e","n","d",QUOTE>>)
LoopSources == {LoopSource(k) : k \in 0..MaxLoops}

\* the names referred to by the generated programs: y and u are declared
\* nowhere, p is the parameter of f, x is a global variable, f a function
UndefinedNames == {<<"y">>, <<"p">>, <<"u">>}
DefinedNames == {<<"x">>, <<"f">>}
ReferencePlaces == {"print", "nested", "branch", "body", "argument", "condition"}
CallPlaces == {"call", "branchcall"}
\* Chal bhai suru kar
\* maan lo x = 1
\* climax f(p) { dialogue wapas do p }
\* ek baat bataun: "p"
\* <the statement with the name>
\* bas khatam karo
\*   print:       ek baat bataun: <name>
\*   nested:      maan lo a = 1 + (2 * -<name>)
\*   branch:      agar kismat rahi (galat) { ek baat bataun: <name> }
\*   body:        climax g() { dialogue wapas do <name> }
\*   argument:    ek baat bataun: f(<name>)
\*   condition:   agar kismat rahi (<name>) { }
\*   call:        <name>(1)
\*   branchcall:  agar kismat rahi (galat) { ek baat bataun: <name>(1) }
ReferenceSource(name, place) ==
    Wrap(<<"m","a","a","n"," ","l","o"," ","x"," ","="," ","1",NL,"c","l","i","m","a","x"," ","f",
          "(","p",")"," ","{"," ","d","i","a","l","o","g","u","e"," ","w","a","p","a","s"," ","d",
          "o"," ","p"," ","}",NL,"e","k"," ","b","a","a","t"," ","b","a","t","a","u","n",":"," ",
          QUOTE,"p",QUOTE,NL>>
         \o (CASE place = "print" -> <<"e","k"," ","b","a","a","t"," ","b","a","t","a","u","n",":"," ">> \o name \o <<>> 
          [] place = "nested" -> <<"m","a","a","n"," ","l","o"," ","a"," ","="," ","1"," ","+"," ","(","2"," ","*"," ","-">> \o name \o <<")">> 
          [] place = "branch" -> <<"a","g","a","r"," ","k","i","s","m","a","t"," ","r","a","h","i"," ","(","g","a","l","a",
                        "t",")"," ","{"," ","e","k"," ","b","a","a","t"," ","b","a","t","a","u","n",":"," ">> \o name \o <<" ","}">> 
          [] place = "body" -> <<"c","l","i","m","a","x"," ","g","(",")"," ","{"," ","d","i","a","l","o","g","u","e"," ",
                        "w","a","p","a","s"," ","d","o"," ">> \o name \o <<" ","}">> 
          [] place = "argument" -> <<"e","k"," ","b","a","a","t"," ","b","a","t","a","u","n",":"," ","f","(">> \o name \o <<")">> 
          [] place = "condition" -> <<"a","g","a","r"," ","k","i","s","m","a","t"," ","r","a","h","i"," ","(">> \o name \o <<")"," ","{"," ","}">> 
          [] place = "call" -> <<>> \o name \o <<"(","1",")">> 
          [] place = "branchcall" -> <<"a","g","a","r"," ","k","i","s","m","a","t"," ","r","a","h","i"," ","(","g","a","l","a",
                        "t",")"," ","{"," ","e","k"," ","b","a","a","t"," ","b","a","t","a","u","n",":"," ">> \o name \o <<"(","1",")"," ","}">>))
ReferenceSources ==
    {ReferenceSource(name, place) : name \in UndefinedNames \cup DefinedNames,
                                    place \in ReferencePlaces \cup CallPlaces}
\* a variable read before its declaration:
\* Chal bhai suru kar
\* ek baat bataun: "p"
\* ek baat bataun: y
\* maan lo y = 1
\* bas khatam karo
SrcUseBeforeDeclaration ==
    <<"C","h","a","l"," ","b","h","a","i"," ","s","u","r","u"," ","k","a","r",NL,"e","k"," ",
      "b","a","a","t"," ","b","a","t","a","u","n",":"," ",QUOTE,"p",QUOTE,NL,"e","k"," ","b",
      "a","a","t"," ","b","a","t","a","u","n",":"," ","y",NL,"m","a","a","n"," ","l","o"," ",
      "y"," ","="," ","1",NL,"b","a","s"," ","k","h","a","t","a","m"," ","k","a","r","o">>
\* a variable of an if block read after the block:
\* Chal bhai suru kar
\* ek baat bataun: "p"
\* agar kismat rahi (sach) { maan lo y = 1 }
\* ek baat bataun: y
\* bas khatam karo
SrcReadAfterIfBlock ==
    <<"C","h","a","l"," ","b","h","a","i"," ","s","u","r","u"," ","k","a","r",NL,"e","k"," ",
      "b","a","a","t"," ","b","a","t","a","u","n",":"," ",QUOTE,"p",QUOTE,NL,"a","g","a","r",
      " ","k","i","s","m","a","t"," ","r","a","h","i"," ","(","s","a","c","h",")"," ","{"," ",
      "m","a","a","n"," ","l","o"," ","y"," ","="," ","1"," ","}",NL,"e","k"," ","b","a","a",
      "t"," ","b","a","t","a","u","n",":"," ","y",NL,"b","a","s"," ","k","h","a","t","a","m",
      " ","k","a","r","o">>
\* a variable of a loop body read after the loop:
\* Chal bhai suru kar
\* ek baat bataun: "p"
\* maan lo i = 0
\* jab tak hai jaan (i < 1) { maan lo y = 1
\*  i = i + 1 }
\* ek baat bataun: y
\* bas khatam karo
SrcReadAfterLoop ==
    <<"C","h","a","l"," ","b","h","a","i"," ","s","u","r","u"," ","k","a","r",NL,"e","k"," ",
      "b","a","a","t"," ","b","a","t","a","u","n",":"," ",QUOTE,"p",QUOTE,NL,"m","a","a","n",
      " ","l","o"," ","i"," ","="," ","0",NL,"j","a","b"," ","t","a","k"," ","h","a","i"," ",
      "j","a","a","n"," ","(","i"," ","<"," ","1",")"," ","{"," ","m","a","a","n"," ","l","o",
      " ","y"," ","="," ","1",NL," ","i"," ","="," ","i"," ","+"," ","1"," ","}",NL,"e","k",
      " ","b","a","a","t"," ","b","a","t","a","u","n",":"," ","y",NL,"b","a","s"," ","k","h",
      "a","t","a","m"," ","k","a","r","o">>
OutOfScopeSources == {SrcUseBeforeDeclaration, SrcReadAfterIfBlock, SrcReadAfterLoop}

\* a return inside a block, a loop and an if of a function body:
\* Chal bhai suru kar
\* climax f(n) { agar kismat rahi (n > 0) { jab tak hai jaan (sach) { { dialogue wapas do "deep" } } }
\*  dialogue wapas do "flat" }
\* ek baat bataun: f(1), f(0)
\* bas khatam karo
SrcReturnNested ==
    <<"C","h","a","l"," ","b","h","a","i"," ","s","u","r","u"," ","k","a","r",NL,"c","l","i",
      "m","a","x"," ","f","(","n",")"," ","{"," ","a","g","a","r"," ","k","i","s","m","a","t",
      " ","r","a","h","i"," ","(","n"," ",">"," ","0",")"," ","{"," ","j","a","b"," ","t","a",
      "k"," ","h","a","i"," ","j","a","a","n"," ","(","s","a","c","h",")"," ","{"," ","{"," ",
      "d","i","a","l","o","g","u","e"," ","w","a","p","a","s"," ","d","o"," ",QUOTE,"d","e",
      "e","p",QUOTE," ","}"," ","}"," ","}",NL," ","d","i","a","l","o","g","u","e"," ","w",
      "a","p","a","s"," ","d","o"," ",QUOTE,"f","l","a","t",QUOTE," ","}",NL,"e","k"," ","b",
      "a","a","t"," ","b","a","t","a","u","n",":"," ","f","(","1",")",","," ","f","(","0",")",
      NL,"b","a","s"," ","k","h","a","t","a","m"," ","k","a","r","o">>
\* a return at top level after a function declaration:
\* Chal bhai suru kar
\* ek baat bataun: "p"
\* climax f() { dialogue wapas do 1 }
\* dialogue wapas do 5
\* bas khatam karo
SrcReturnAfterFunction ==
    <<"C","h","a","l"," ","b","h","a","i"," ","s","u","r","u"," ","k","a","r",NL,"e","k"," ",
      "b","a","a","t"," ","b","a","t","a","u","n",":"," ",QUOTE,"p",QUOTE,NL,"c","l","i","m",
      "a","x"," ","f","(",")"," ","{"," ","d","i","a","l","o","g","u","e"," ","w","a","p","a",
      "s"," ","d","o"," ","1"," ","}",NL,"d","i","a","l","o","g","u","e"," ","w","a","p","a",
      "s"," ","d","o"," ","5",NL,"b","a","s"," ","k","h","a","t","a","m"," ","k","a","r","o">>
\* a return in a loop and a block at top level:
\* Chal bhai suru kar
\* ek baat bataun: "p"
\* jab tak hai jaan (galat) { { dialogue wapas do 5 } }
\* bas khatam karo
SrcReturnInLoop ==
    <<"C","h","a","l"," ","b","h","a","i"," ","s","u","r","u"," ","k","a","r",NL,"e","k"," ",
      "b","a","a","t"," ","b","a","t","a","u","n",":"," ",QUOTE,"p",QUOTE,NL,"j","a","b"," ",
      "t","a","k"," ","h","a","i"," ","j","a","a","n"," ","(","g","a","l","a","t",")"," ","{",
      " ","{"," ","d","i","a","l","o","g","u","e"," ","w","a","p","a","s"," ","d","o"," ","5",
      " ","}"," ","}",NL,"b","a","s"," ","k","h","a","t","a","m"," ","k","a","r","o">>
\* a break at top level:
\* Chal bhai suru kar
\* ek baat bataun: "p"
\* me bahar ja raha hu
\* bas khatam karo
SrcBreakOutsideLoop ==
    <<"C","h","a","l"," ","b","h","a","i"," ","s","u","r","u"," ","k","a","r",NL,"e","k"," ",
      "b","a","a","t"," ","b","a","t","a","u","n",":"," ",QUOTE,"p",QUOTE,NL,"m","e"," ","b",
      "a","h","a","r"," ","j","a"," ","r","a","h","a"," ","h","u",NL,"b","a","s"," ","k","h",
      "a","t","a","m"," ","k","a","r","o">>
\* a break in a function body, outside any loop:
\* Chal bhai suru kar
\* ek baat bataun: "p"
\* climax f() { me bahar ja raha hu }
\* bas khatam karo
SrcBreakInFunction ==
    <<"C","h","a","l"," ","b","h","a","i"," ","s","u","r","u"," ","k","a","r",NL,"e","k"," ",
      "b","a","a","t"," ","b","a","t","a","u","n",":"," ",QUOTE,"p",QUOTE,NL,"c","l","i","m",
      "a","x"," ","f","(",")"," ","{"," ","m","e"," ","b","a","h","a","r"," ","j","a"," ","r",
      "a","h","a"," ","h","u"," ","}",NL,"b","a","s"," ","k","h","a","t","a","m"," ","k","a",
      "r","o">>
\* a break inside a loop:
\* Chal bhai suru kar
\* maan lo i = 0
\* jab tak hai jaan (sach) { i = i + 1
\*  agar kismat rahi (i > 1) { me bahar ja raha hu } }
\* ek baat bataun: i
\* bas khatam karo
SrcBreakInLoop ==
    <<"C","h","a","l"," ","b","h","a","i"," ","s","u","r","u"," ","k","a","r",NL,"m","a","a",
      "n"," ","l","o"," ","i"," ","="," ","0",NL,"j","a","b"," ","t","a","k"," ","h","a","i",
      " ","j","a","a","n"," ","(","s","a","c","h",")"," ","{"," ","i"," ","="," ","i"," ","+",
      " ","1",NL," ","a","g","a","r"," ","k","i","s","m","a","t"," ","r","a","h","i"," ","(",
      "i"," ",">"," ","1",")"," ","{"," ","m","e"," ","b","a","h","a","r"," ","j","a"," ","r",
      "a","h","a"," ","h","u"," ","}"," ","}",NL,"e","k"," ","b","a","a","t"," ","b","a","t",
      "a","u","n",":"," ","i",NL,"b","a","s"," ","k","h","a","t","a","m"," ","k","a","r","o">>
PlacementSources ==
    {SrcReturnNested, SrcReturnAfterFunction, SrcReturnInLoop, SrcBreakOutsideLoop,
     SrcBreakInFunction, SrcBreakInLoop}

\* the pieces of the generated string literals: the text between the quotes
\* and the characters it stands for
EscapeUnits ==
    {[text |-> <<"a">>, value |-> <<"a">>],
     [text |-> <<"n">>, value |-> <<"n">>],
     [text |-> <<BACKSLASH, "n">>, value |-> <<NL>>],
     [text |-> <<BACKSLASH, BACKSLASH>>, value |-> <<BACKSLASH>>],
     [text |-> <<BACKSLASH, QUOTE>>, value |-> <<QUOTE>>]}
\* the largest number of pieces of a generated string literal
MaxUnits == 3
UnitSequences == UNION {[1..k -> EscapeUnits] : k \in 1..MaxUnits}
RECURSIVE UnitsText(_), UnitsValue(_)
UnitsText(units) == IF units = <<>> THEN <<>> ELSE Head(units).text \o UnitsText(Tail(units))
UnitsValue(units) == IF units = <<>> THEN <<>> ELSE Head(units).value \o UnitsValue(Tail(units))
\* "<the pieces>": a source that is one string literal
StringSource(units) == <<QUOTE>> \o UnitsText(units) \o <<QUOTE>>
StringSources == {StringSource(units) : units \in UnitSequences}
\* "a\tb\rc"
SrcTabAndReturn ==
    <<QUOTE,"a",BACKSLASH,"t","b",BACKSLASH,"r","c",QUOTE>>

\* the characters of the generated lexer inputs
LexerAlphabet == {"a", NL, QUOTE, BACKSLASH, "&"}
\* the largest length of a generated lexer input
MaxChars == 4
\* every string over the alphabet up to that length
LexerSources == UNION {[1..k -> LexerAlphabet] : k \in 0..MaxChars}
\* a // b
\* "c" && d
SrcCommentLine ==
    <<"a"," ","/","/"," ","b",NL,QUOTE,"c",QUOTE," ","&","&"," ","d">>
\*  	 a
\* & b
SrcBlanks ==
    <<" ",TAB," ","a",CR,NL,"&"," ","b">>

\* expressions whose tokens may stand on different lines: a division by
\* zero, the negation of a string, a call of an undeclared function
SpreadForms == {"binary", "unary", "call"}
SpreadTokens(form) ==
    CASE form = "binary" -> <<<<"1">>, <<"/">>, <<"0">>>>
      [] form = "unary" -> <<<<"-">>, <<QUOTE, "s", QUOTE>>>>
      [] form = "call" -> <<<<"f">>, <<"(">>, <<"1">>, <<")">>>>
\* what stands between two tokens: a blank or a line break
Gaps(form) == [1..(Len(SpreadTokens(form)) - 1) -> {" ", NL}]
RECURSIVE SpreadText(_, _, _)
\* the tokens from the i-th on, each but the last followed by its gap
SpreadText(toks, gaps, i) ==
    IF i = Len(toks) THEN toks[i]
    ELSE toks[i] \o <<gaps[i]>> \o SpreadText(toks, gaps, i + 1)
\* Chal bhai suru kar
\* ek baat bataun: <the tokens of the expression with the gaps between them>
\* bas khatam karo
SpreadSource(form, gaps) ==
    Wrap(<<"e","k"," ","b","a","a","t"," ","b","a","t","a","u","n",":"," ">>
         \o SpreadText(SpreadTokens(form), gaps, 1))
SpreadSources ==
    UNION {{SpreadSource(form, gaps) : gaps \in Gaps(form)} : form \in SpreadForms}

\* Chal bhai suru kar
\* maan lo x = 1
\* maan lo y = 2
\* climax f() { ek baat bataun: "f"
\* dialogue wapas do 7 }
\* agar kismat rahi (1 == 1) {
\* maan lo y = 3
\* ek baat bataun: x = y = f()
\* ek baat bataun: x, y
\* }
\* ek baat bataun: x, y
\* bas khatam karo
SrcAssignmentChain ==
    <<"C","h","a","l"," ","b","h","a","i"," ","s","u","r","u"," ","k","a","r",NL,"m","a","a",
      "n"," ","l","o"," ","x"," ","="," ","1",NL,"m","a","a","n"," ","l","o"," ","y"," ","=",
      " ","2",NL,"c","l","i","m","a","x"," ","f","(",")"," ","{"," ","e","k"," ","b","a","a",
      "t"," ","b","a","t","a","u","n",":"," ",QUOTE,"f",QUOTE,NL,"d","i","a","l","o","g","u",
      "e"," ","w","a","p","a","s"," ","d","o"," ","7"," ","}",NL,"a","g","a","r"," ","k","i",
      "s","m","a","t"," ","r","a","h","i"," ","(","1"," ","=","="," ","1",")"," ","{",NL,"m",
      "a","a","n"," ","l","o"," ","y"," ","="," ","3",NL,"e","k"," ","b","a","a","t"," ","b",
      "a","t","a","u","n",":"," ","x"," ","="," ","y"," ","="," ","f","(",")",NL,"e","k"," ",
      "b","a","a","t"," ","b","a","t","a","u","n",":"," ","x",","," ","y",NL,"}",NL,"e","k",
      " ","b","a","a","t"," ","b","a","t","a","u","n",":"," ","x",","," ","y",NL,"b","a","s",
      " ","k","h","a","t","a","m"," ","k","a","r","o">>
\* Chal bhai suru kar
\* maan lo y = 1
\* x = y = 5
\* bas khatam karo
SrcAssignmentOrder ==
    <<"C","h","a","l"," ","b","h","a","i"," ","s","u","r","u"," ","k","a","r",NL,"m","a","a",
      "n"," ","l","o"," ","y"," ","="," ","1",NL,"x"," ","="," ","y"," ","="," ","5",NL,"b",
      "a","s"," ","k","h","a","t","a","m"," ","k","a","r","o">>
\* left sides of "=" that are no bare identifier
AssignmentTargets ==
    {<<"(", "x", ")">>, <<"1">>, <<QUOTE, "s", QUOTE>>, <<"x", " ", "+", " ", "1">>,
     <<"-", "x">>, <<"g", "(", ")">>}
\* Chal bhai suru kar
\* maan lo x = 1
\* climax g() { dialogue wapas do 1 }
\* <target> = 2
\* bas khatam karo
AssignmentTargetSource(target) ==
    Wrap(<<"m","a","a","n"," ","l","o"," ","x"," ","="," ","1",NL>>
         \o <<"c","l","i","m","a","x"," ","g","(",")"," ","{"," ","d","i","a","l","o","g","u","e"," ",
              "w","a","p","a","s"," ","d","o"," ","1"," ","}",NL>>
         \o target \o <<" ", "=", " ", "2">>)
AssignmentSources ==
    {SrcAssignmentChain} \cup {AssignmentTargetSource(target) : target \in AssignmentTargets}

\* Chal bhai suru kar
\* maan lo i = 0
\* jab tak hai jaan (i < 2) {
\* i = i + 1
\* maan lo j = 0
\* jab tak hai jaan (j < 3) {
\* j = j + 1
\* agar kismat rahi (j == 2) { me bahar ja raha hu }
\* ek baat bataun: i, j
\* }
\* ek baat bataun: "outer", i
\* }
\* ek baat bataun: "end"
\* bas khatam karo
SrcBreakNested ==
    <<"C","h","a","l"," ","b","h","a","i"," ","s","u","r","u"," ","k","a","r",NL,"m","a","a",
      "n"," ","l","o"," ","i"," ","="," ","0",NL,"j","a","b"," ","t","a","k"," ","h","a","i",
      " ","j","a","a","n"," ","(","i"," ","<"," ","2",")"," ","{",NL,"i"," ","="," ","i"," ",
      "+"," ","1",NL,"m","a","a","n"," ","l","o"," ","j"," ","="," ","0",NL,"j","a","b"," ",
      "t","a","k"," ","h","a","i"," ","j","a","a","n"," ","(","j"," ","<"," ","3",")"," ","{",
      NL,"j"," ","="," ","j"," ","+"," ","1",NL,"a","g","a","r"," ","k","i","s","m","a","t",
      " ","r","a","h","i"," ","(","j"," ","=","="," ","2",")"," ","{"," ","m","e"," ","b","a",
      "h","a","r"," ","j","a"," ","r","a","h","a"," ","h","u"," ","}",NL,"e","k"," ","b","a",
      "a","t"," ","b","a","t","a","u","n",":"," ","i",","," ","j",NL,"}",NL,"e","k"," ","b",
      "a","a","t"," ","b","a","t","a","u","n",":"," ",QUOTE,"o","u","t","e","r",QUOTE,","," ",
      "i",NL,"}",NL,"e","k"," ","b","a","a","t"," ","b","a","t","a","u","n",":"," ",QUOTE,"e",
      "n","d",QUOTE,NL,"b","a","s"," ","k","h","a","t","a","m"," ","k","a","r","o">>

\* how the function reaches the call: through a variable or a parameter
IndirectRoutes == {"variable", "parameter"}
\* climax add(a, b) { ek baat bataun: "in", a, b
\* dialogue wapas do 1 }
DeclareAdd ==
    <<"c","l","i","m","a","x"," ","a","d","d","(","a",","," ","b",")"," ","{"," ","e","k"," ",
      "b","a","a","t"," ","b","a","t","a","u","n",":"," ",QUOTE,"i","n",QUOTE,","," ","a",",",
      " ","b",NL,"d","i","a","l","o","g","u","e"," ","w","a","p","a","s"," ","d","o"," ","1",
      " ","}",NL>>
\* a program that calls add with k arguments 1, 2, ... under another name:
\*   variable:   climax add(a, b) {..}
\*               maan lo g = add
\*               ek baat bataun: "before"
\*               ek baat bataun: g(..)
\*               ek baat bataun: "after"
\*   parameter:  climax add(a, b) {..}
\*               climax apply(h) { dialogue wapas do h(..) }
\*               ek baat bataun: "before"
\*               ek baat bataun: apply(add)
\*               ek baat bataun: "after"
IndirectSource(route, k) ==
    Wrap(DeclareAdd
         \o (CASE route = "variable" ->
                    <<"m","a","a","n"," ","l","o"," ","g"," ","="," ","a","d","d",NL,"e","k"," ","b","a","a",
                      "t"," ","b","a","t","a","u","n",":"," ",QUOTE,"b","e","f","o","r","e",QUOTE,NL,"e","k",
                      " ","b","a","a","t"," ","b","a","t","a","u","n",":"," ","g","(">>
                    \o ArgText(k) \o <<")">>
               [] route = "parameter" ->
                    <<"c","l","i","m","a","x"," ","a","p","p","l","y","(","h",")"," ","{"," ","d","i","a","l",
                      "o","g","u","e"," ","w","a","p","a","s"," ","d","o"," ","h","(">>
                    \o ArgText(k)
                    \o <<")"," ","}",NL,"e","k"," ","b","a","a","t"," ","b","a","t","a","u","n",":"," ",QUOTE,
                      "b","e","f","o","r","e",QUOTE,NL,"e","k"," ","b","a","a","t"," ","b","a","t","a","u",
                      "n",":"," ","a","p","p","l","y","(","a","d","d",")">>)
         \o <<NL,"e","k"," ","b","a","a","t"," ","b","a","t","a","u","n",":"," ",QUOTE,"a","f","t",
           "e","r",QUOTE>>)
IndirectSources ==
    {IndirectSource(route, k) : route \in IndirectRoutes, k \in 0..(MaxParams + 1)}

\* Chal bhai suru kar
\* climax f(a, b) { dialogue wapas do a + b }
\* climax one(x) { dialogue wapas do x }
\* climax apply(f) { dialogue wapas do f(<k arguments>) }
\* ek baat bataun: "before"
\* ek baat bataun: apply(one)
\* bas khatam karo
ShadowSource(k) ==
    Wrap(<<"c","l","i","m","a","x"," ","f","(","a",","," ","b",")"," ","{"," ","d","i","a","l","o",
           "g","u","e"," ","w","a","p","a","s"," ","d","o"," ","a"," ","+"," ","b"," ","}",NL,"c",
           "l","i","m","a","x"," ","o","n","e","(","x",")"," ","{"," ","d","i","a","l","o","g","u",
           "e"," ","w","a","p","a","s"," ","d","o"," ","x"," ","}",NL,"c","l","i","m","a","x"," ",
           "a","p","p","l","y","(","f",")"," ","{"," ","d","i","a","l","o","g","u","e"," ","w","a",
           "p","a","s"," ","d","o"," ","f","(">>
         \o ArgText(k)
         \o <<")"," ","}",NL,"e","k"," ","b","a","a","t"," ","b","a","t","a","u","n",":"," ",QUOTE,
           "b","e","f","o","r","e",QUOTE,NL,"e","k"," ","b","a","a","t"," ","b","a","t","a","u",
           "n",":"," ","a","p","p","l","y","(","o","n","e",")">>)
ShadowSources == {ShadowSource(k) : k \in 0..MaxParams}

\* the values of the operands of the generated && and ||: the text and
\* whether the value is one of unit and false
LogicalOperands ==
    {[text |-> <<"s", "a", "c", "h">>, falsy |-> FALSE],
     [text |-> <<"g", "a", "l", "a", "t">>, falsy |-> TRUE],
     [text |-> <<"k", "h", "a", "a", "l", "i">>, falsy |-> TRUE],
     [text |-> <<"0">>, falsy |-> FALSE]}
LogicalOperators == {<<"&", "&">>, <<"|", "|">>}
\* Chal bhai suru kar
\* climax L() { ek baat bataun: "L"
\* dialogue wapas do <l> }
\* climax R() { ek baat bataun: "R"
\* dialogue wapas do <r> }
\* ek baat bataun: L() <op> R()
\* bas khatam karo
LogicalSource(op, l, r) ==
    Wrap(<<"c","l","i","m","a","x"," ","L","(",")"," ","{"," ","e","k"," ","b","a","a","t"," ","b",
           "a","t","a","u","n",":"," ",QUOTE,"L",QUOTE,NL,"d","i","a","l","o","g","u","e"," ","w",
           "a","p","a","s"," ","d","o"," ">>
         \o l.text
         \o <<" ","}",NL,"c","l","i","m","a","x"," ","R","(",")"," ","{"," ","e","k"," ","b","a","a",
           "t"," ","b","a","t","a","u","n",":"," ",QUOTE,"R",QUOTE,NL,"d","i","a","l","o","g","u",
           "e"," ","w","a","p","a","s"," ","d","o"," ">>
         \o r.text
         \o <<" ","}",NL,"e","k"," ","b","a","a","t"," ","b","a","t","a","u","n",":"," ","L","(",")",
           " ">> \o op \o <<" ", "R", "(", ")">>)
LogicalSources ==
    {LogicalSource(op, l, r) : op \in LogicalOperators, l \in LogicalOperands, r \in LogicalOperands}

\* Chal bhai suru kar
\* maan lo x = 1
\* {
\* maan lo x = 2
\* ek baat bataun: x
\* }
\* ek baat bataun: x
\* bas khatam karo
SrcBlockRedeclare ==
    <<"C","h","a","l"," ","b","h","a","i"," ","s","u","r","u"," ","k","a","r",NL,"m","a","a",
      "n"," ","l","o"," ","x"," ","="," ","1",NL,"{",NL,"m","a","a","n"," ","l","o"," ","x",
      " ","="," ","2",NL,"e","k"," ","b","a","a","t"," ","b","a","t","a","u","n",":"," ","x",
      NL,"}",NL,"e","k"," ","b","a","a","t"," ","b","a","t","a","u","n",":"," ","x",NL,"b",
      "a","s"," ","k","h","a","t","a","m"," ","k","a","r","o">>
\* Chal bhai suru kar
\* {
\* maan lo y = 1
\* }
\* ek baat bataun: "before"
\* ek baat bataun: y
\* bas khatam karo
SrcBlockLeak ==
    <<"C","h","a","l"," ","b","h","a","i"," ","s","u","r","u"," ","k","a","r",NL,"{",NL,"m",
      "a","a","n"," ","l","o"," ","y"," ","="," ","1",NL,"}",NL,"e","k"," ","b","a","a","t",
      " ","b","a","t","a","u","n",":"," ",QUOTE,"b","e","f","o","r","e",QUOTE,NL,"e","k"," ",
      "b","a","a","t"," ","b","a","t","a","u","n",":"," ","y",NL,"b","a","s"," ","k","h","a",
      "t","a","m"," ","k","a","r","o">>
\* Chal bhai suru kar
\* maan lo x = 1
\* agar kismat rahi (1 == 1) {
\* maan lo x = 2
\* ek baat bataun: x
\* }
\* ek baat bataun: x
\* bas khatam karo
SrcIfRedeclare ==
    <<"C","h","a","l"," ","b","h","a","i"," ","s","u","r","u"," ","k","a","r",NL,"m","a","a",
      "n"," ","l","o"," ","x"," ","="," ","1",NL,"a","g","a","r"," ","k","i","s","m","a","t",
      " ","r","a","h","i"," ","(","1"," ","=","="," ","1",")"," ","{",NL,"m","a","a","n"," ",
      "l","o"," ","x"," ","="," ","2",NL,"e","k"," ","b","a","a","t"," ","b","a","t","a","u",
      "n",":"," ","x",NL,"}",NL,"e","k"," ","b","a","a","t"," ","b","a","t","a","u","n",":",
      " ","x",NL,"b","a","s"," ","k","h","a","t","a","m"," ","k","a","r","o">>
BlockSources == {SrcBlockRedeclare, SrcBlockLeak, SrcIfRedeclare}

\* Chal bhai suru kar
\* climax outer() {
\* climax inner() { dialogue wapas do 7 }
\* dialogue wapas do inner()
\* }
\* ek baat bataun: outer()
\* bas khatam karo
SrcInnerCalled ==
    <<"C","h","a","l"," ","b","h","a","i"," ","s","u","r","u"," ","k","a","r",NL,"c","l","i",
      "m","a","x"," ","o","u","t","e","r","(",")"," ","{",NL,"c","l","i","m","a","x"," ","i",
      "n","n","e","r","(",")"," ","{"," ","d","i","a","l","o","g","u","e"," ","w","a","p","a",
      "s"," ","d","o"," ","7"," ","}",NL,"d","i","a","l","o","g","u","e"," ","w","a","p","a",
      "s"," ","d","o"," ","i","n","n","e","r","(",")",NL,"}",NL,"e","k"," ","b","a","a","t",
      " ","b","a","t","a","u","n",":"," ","o","u","t","e","r","(",")",NL,"b","a","s"," ","k",
      "h","a","t","a","m"," ","k","a","r","o">>
\* Chal bhai suru kar
\* climax make() {
\* maan lo n = 5
\* climax get() { dialogue wapas do n }
\* dialogue wapas do get
\* }
\* maan lo g = make()
\* ek baat bataun: g()
\* bas khatam karo
SrcInnerReturned ==
    <<"C","h","a","l"," ","b","h","a","i"," ","s","u","r","u"," ","k","a","r",NL,"c","l","i",
      "m","a","x"," ","m","a","k","e","(",")"," ","{",NL,"m","a","a","n"," ","l","o"," ","n",
      " ","="," ","5",NL,"c","l","i","m","a","x"," ","g","e","t","(",")"," ","{"," ","d","i",
      "a","l","o","g","u","e"," ","w","a","p","a","s"," ","d","o"," ","n"," ","}",NL,"d","i",
      "a","l","o","g","u","e"," ","w","a","p","a","s"," ","d","o"," ","g","e","t",NL,"}",NL,
      "m","a","a","n"," ","l","o"," ","g"," ","="," ","m","a","k","e","(",")",NL,"e","k"," ",
      "b","a","a","t"," ","b","a","t","a","u","n",":"," ","g","(",")",NL,"b","a","s"," ","k",
      "h","a","t","a","m"," ","k","a","r","o">>
\* Chal bhai suru kar
\* agar kismat rahi (1 == 1) {
\* climax inner() { dialogue wapas do 7 }
\* ek baat bataun: inner()
\* }
\* bas khatam karo
SrcInnerInBlock ==
    <<"C","h","a","l"," ","b","h","a","i"," ","s","u","r","u"," ","k","a","r",NL,"a","g","a",
      "r"," ","k","i","s","m","a","t"," ","r","a","h","i"," ","(","1"," ","=","="," ","1",")",
      " ","{",NL,"c","l","i","m","a","x"," ","i","n","n","e","r","(",")"," ","{"," ","d","i",
      "a","l","o","g","u","e"," ","w","a","p","a","s"," ","d","o"," ","7"," ","}",NL,"e","k",
      " ","b","a","a","t"," ","b","a","t","a","u","n",":"," ","i","n","n","e","r","(",")",NL,
      "}",NL,"b","a","s"," ","k","h","a","t","a","m"," ","k","a","r","o">>
InnerFunctionSources == {SrcInnerCalled, SrcInnerReturned, SrcInnerInBlock}

\* Chal bhai suru kar
\* climax f() {
\* agar kismat rahi (1 == 1) { maan lo a = 1
\* dialogue wapas do a }
\* }
\* agar kismat rahi (1 == 1) {
\* maan lo r = f()
\* maan lo s = 2
\* ek baat bataun: r, s
\* }
\* maan lo t = 3
\* bas khatam karo
SrcUnwindInCall ==
    <<"C","h","a","l"," ","b","h","a","i"," ","s","u","r","u"," ","k","a","r",NL,"c","l","i",
      "m","a","x"," ","f","(",")"," ","{",NL,"a","g","a","r"," ","k","i","s","m","a","t"," ",
      "r","a","h","i"," ","(","1"," ","=","="," ","1",")"," ","{"," ","m","a","a","n"," ","l",
      "o"," ","a"," ","="," ","1",NL,"d","i","a","l","o","g","u","e"," ","w","a","p","a","s",
      " ","d","o"," ","a"," ","}",NL,"}",NL,"a","g","a","r"," ","k","i","s","m","a","t"," ",
      "r","a","h","i"," ","(","1"," ","=","="," ","1",")"," ","{",NL,"m","a","a","n"," ","l",
      "o"," ","r"," ","="," ","f","(",")",NL,"m","a","a","n"," ","l","o"," ","s"," ","="," ",
      "2",NL,"e","k"," ","b","a","a","t"," ","b","a","t","a","u","n",":"," ","r",","," ","s",
      NL,"}",NL,"m","a","a","n"," ","l","o"," ","t"," ","="," ","3",NL,"b","a","s"," ","k",
      "h","a","t","a","m"," ","k","a","r","o">>
\* Chal bhai suru kar
\* climax f() {
\* jab tak hai jaan (1 == 1) { maan lo a = 1 / 0 }
\* }
\* agar kismat rahi (1 == 1) {
\* maan lo r = f()
\* }
\* bas khatam karo
SrcErrorInCall ==
    <<"C","h","a","l"," ","b","h","a","i"," ","s","u","r","u"," ","k","a","r",NL,"c","l","i",
      "m","a","x"," ","f","(",")"," ","{",NL,"j","a","b"," ","t","a","k"," ","h","a","i"," ",
      "j","a","a","n"," ","(","1"," ","=","="," ","1",")"," ","{"," ","m","a","a","n"," ","l",
      "o"," ","a"," ","="," ","1"," ","/"," ","0"," ","}",NL,"}",NL,"a","g","a","r"," ","k",
      "i","s","m","a","t"," ","r","a","h","i"," ","(","1"," ","=","="," ","1",")"," ","{",NL,
      "m","a","a","n"," ","l","o"," ","r"," ","="," ","f","(",")",NL,"}",NL,"b","a","s"," ",
      "k","h","a","t","a","m"," ","k","a","r","o">>
UnwindSources == {SrcUnwindInCall, SrcErrorInCall}

\* every source of the model
Sources ==
    FramingSources \cup FramingErrorSources \cup SampleSources
    \cup PrintSources \cup {SrcPrintOrder}
    \cup ArityCallSources
    \cup BoundarySources \cup {SrcKeywordPrefixNames}
    \cup {SrcUpperCase, SrcKelvin}
    \cup OperatorPairSources \cup ArithmeticSources
    \cup TruthSources
    \cup ClosureSources
    \cup ScopeSources
    \cup DivisionSources
    \cup PlusSources
    \cup LoopSources
    \cup ReferenceSources \cup OutOfScopeSources
    \cup PlacementSources
    \cup StringSources \cup {SrcTabAndReturn}
    \cup LexerSources \cup {SrcCommentLine, SrcBlanks}
    \cup SpreadSources
    \cup AssignmentSources
    \cup {SrcBreakNested}
    \cup IndirectSources
    \cup ShadowSources
    \cup LogicalSources
    \cup BlockSources
    \cup InnerFunctionSources
    \cup UnwindSources

\* a fresh instance on which run(source) is entered
\* the largest loop limit a caller asks for
MaxCap == 2
\* the loops run with a loop limit asked for in the options
LoopLimitRuns ==
    {[options |-> [skipAnalysis |-> FALSE, maxIterations |-> c], source |-> LoopSource(k)]
        : c \in 1..MaxCap, k \in 0..MaxLoops}
\* programs run with { skipAnalysis: true }
SkipAnalysisRuns ==
    {[options |-> [skipAnalysis |-> TRUE, maxIterations |-> 0], source |-> src]
        : src \in {SrcTopLevelReturn, SrcReturnAfterFunction, SrcReturnInLoop,
                    SrcReturnNested, SrcUndefinedVariable, SrcAssignmentOrder,
                    SrcBlockRedeclare, SrcBlockLeak, SrcInnerCalled, SrcInnerReturned,
                    SrcInnerInBlock}}
ConfiguredRuns == LoopLimitRuns \cup SkipAnalysisRuns

\* the runs of the model: every source with the default options, and the
\* sources given with other options
Runs == {[options |-> DefaultOptions, source |-> src] : src \in Sources} \cup ConfiguredRuns

Init == \E r \in Runs : Constructed(r.options, r.source)

Next ==
    \/ ScanWhitespaceAndComments
    \/ ScanKeyword
    \/ ScanSingleChar
    \/ ScanOperator
    \/ ScanString
    \/ ScanNumber
    \/ ScanIdentifier
    \/ ScanUnexpectedCharacter
    \/ TokenizeEnd
    \/ Parse
    \/ Analyze
    \/ SkipAnalysis
    \/ ExecuteStatement
    \/ ExecuteEnd

Spec == Init /\ [][Next]_vars

\* Chal bhai suru kar
\* climax f() { dialogue wapas do 1 }
\* maan lo x = 1 // one
\* ek baat bataun: "A", f() == x
\* bas khatam karo
SrcDeclares ==
    <<"C","h","a","l"," ","b","h","a","i"," ","s","u","r","u"," ","k","a","r",NL,"c","l","i",
      "m","a","x"," ","f","(",")"," ","{"," ","d","i","a","l","o","g","u","e"," ","w","a","p",
      "a","s"," ","d","o"," ","1"," ","}",NL,"m","a","a","n"," ","l","o"," ","x"," ","="," ",
      "1"," ","/","/"," ","o","n","e",NL,"e","k"," ","b","a","a","t"," ","b","a","t","a","u",
      "n",":"," ",QUOTE,"A",QUOTE,","," ","f","(",")"," ","=","="," ","x",NL,"b","a","s"," ",
      "k","h","a","t","a","m"," ","k","a","r","o">>
\* Chal bhai suru kar
\* ek baat bataun: f()
\* climax f() { dialogue wapas do 2 }
\* bas khatam karo
SrcCallsEarly ==
    <<"C","h","a","l"," ","b","h","a","i"," ","s","u","r","u"," ","k","a","r",NL,"e","k"," ",
      "b","a","a","t"," ","b","a","t","a","u","n",":"," ","f","(",")",NL,"c","l","i","m","a",
      "x"," ","f","(",")"," ","{"," ","d","i","a","l","o","g","u","e"," ","w","a","p","a","s",
      " ","d","o"," ","2"," ","}",NL,"b","a","s"," ","k","h","a","t","a","m"," ","k","a","r",
      "o">>
\* Chal bhai suru kar
\* ek baat bataun: x
\* bas khatam karo
SrcReadsX ==
    <<"C","h","a","l"," ","b","h","a","i"," ","s","u","r","u"," ","k","a","r",NL,"e","k"," ",
      "b","a","a","t"," ","b","a","t","a","u","n",":"," ","x",NL,"b","a","s"," ","k","h","a",
      "t","a","m"," ","k","a","r","o">>
\* Chal bhai suru kar
\* maan lo x = 1 @
\* bas khatam karo
SrcStrayAt ==
    <<"C","h","a","l"," ","b","h","a","i"," ","s","u","r","u"," ","k","a","r",NL,"m","a","a",
      "n"," ","l","o"," ","x"," ","="," ","1"," ","@",NL,"b","a","s"," ","k","h","a","t","a",
      "m"," ","k","a","r","o">>
\* the programs run one after the other on one instance
RunSources == {SrcDeclares, SrcCallsEarly, SrcReadsX, SrcStrayAt}
\* the largest number of calls of run() on one instance
MaxRuns == 2

\* run(src) is called on an instance whose last run has returned: the
\* assignments at the head of run() and the new Lexer; the analyzer and the
\* interpreter of the instance, with its global environment, stay
RunAgain ==
    /\ phase = "done"
    /\ Len(result) < MaxRuns
    /\ \E src \in RunSources : source' = src
    /\ phase' = "lex"
    /\ start' = 0
    /\ current' = 0
    /\ line' = 1
    /\ column' = 1
    /\ startColumn' = 1
    /\ tokens' = <<>>
    /\ ast' = <<>>
    /\ UNCHANGED <<options, analyzer, envs, funs, environment, output, pc, result>>

\* an instance with or without skipAnalysis, and its first run
InitRuns ==
    \E skip \in BOOLEAN : \E src \in RunSources :
        Constructed([skipAnalysis |-> skip, maxIterations |-> 0], src)

NextRuns ==
    \/ ScanWhitespaceAndComments
    \/ ScanKeyword
    \/ ScanSingleChar
    \/ ScanOperator
    \/ ScanString
    \/ ScanNumber
    \/ ScanIdentifier
    \/ ScanUnexpectedCharacter
    \/ TokenizeEnd
    \/ Parse
    \/ Analyze
    \/ SkipAnalysis
    \/ ExecuteStatement
    \/ ExecuteEnd
    \/ RunAgain

\* several runs on one instance
SpecRuns == InitRuns /\ [][NextRuns]_vars

(***************************************************************************)
(* Properties                                                              *)
(***************************************************************************)
\* run() has returned
Done == phase = "done" /\ result # <<>>
\* Lexer.tokenize returned: the token list ends with the EOF token
Tokenized == tokens # <<>> /\ tokens[Len(tokens)].type = "EOF"
TokenTypes == [i \in 1..Len(tokens) |-> tokens[i].type]
\* run() returned the failure whose errorObject is an error of this class
FailedWith(name) == Done /\ ~result[1].success /\ result[1].errorObject.name = name
\* ... and of this message
FailedWithKey(name, key) == FailedWith(name) /\ result[1].errorObject.key = key
\* run() returned success with this output list
SucceededWith(out) == Done /\ result[1].success /\ result[1].output = out
\* no Program was built and the interpreter is as its constructor left it
NothingExecuted ==
    /\ pc = 0
    /\ output = <<>>
    /\ envs = <<Environment(0)>>
    /\ funs = <<>>
    /\ environment = 1

\* C1: both documented spellings of the start keyword (action!, Chal bhai
\* suru kar) are lexed as the ACTION token and both spellings of the end
\* keyword (paisa vasool, bas khatam karo) as the PAISA_VASOOL token, so
\* that run on "<start>\n<end>" succeeds with an empty output list, in
\* particular on "action!\npaisa vasool".
C1_BothSpellings ==
    (phase = "done" /\ source \in FramingSources)
        => /\ TokenTypes = <<"ACTION", "PAISA_VASOOL", "EOF">>
           /\ SucceededWith(<<>>)

Children(node) ==
    CASE node.type = "Program" -> node.body
      [] node.type \in {"VariableDeclaration", "Assignment"} -> <<node.value>>
      [] node.type = "PrintStatement" -> node.expressions
      [] node.type = "IfStatement" -> node.conditions \o node.consequents \o node.alternate
      [] node.type = "WhileStatement" -> <<node.condition, node.body>>
      [] node.type = "FunctionDeclaration" -> <<node.body>>
      [] node.type = "ReturnStatement" -> node.value
      [] node.type \in {"ExpressionStatement", "Grouping"} -> <<node.expression>>
      [] node.type = "Block" -> node.statements
      [] node.type = "BinaryExpression" -> <<node.left, node.right>>
      [] node.type = "UnaryExpression" -> <<node.operand>>
      [] node.type = "CallExpression" -> node.arguments
      [] OTHER -> <<>>

RECURSIVE Descendants(_)
\* the node and every node below it
Descendants(node) ==
    {node} \cup UNION {Descendants(Children(node)[i]) : i \in 1..Len(Children(node))}

\* the statement that the next iteration of Interpreter.visitProgram executes
AtStatement == phase = "execute" /\ pc <= Len(ast[1].body)
CurrentStatement == ast[1].body[pc]
\* a statement with no statement nested in it and no call
IsSimple(stmt) ==
    /\ stmt.type \in {"VariableDeclaration", "Assignment", "PrintStatement", "ExpressionStatement"}
    /\ \A n \in Descendants(stmt) : n.type # "CallExpression"

\* C3, the steps: the output list changes only when a statement is executed
\* and only by entries added at its end; a print statement that is executed
\* (without nested calls, and not throwing) adds exactly one entry; a simple
\* statement that is no print statement, or that throws, adds none.
C3_PrintStep ==
    /\ output' # output
        => /\ AtStatement
           /\ Len(output') > Len(output)
           /\ SubSeq(output', 1, Len(output)) = output
    /\ (AtStatement /\ IsSimple(CurrentStatement))
        => IF CurrentStatement.type = "PrintStatement" /\ pc' = pc + 1
           THEN Len(output') = Len(output) + 1
           ELSE output' = output

\* C3, the results: the entry of a print statement is its arguments'
\* stringifications joined by one space; the arguments are evaluated left to
\* right and the entries are returned in the order of execution; a print
\* statement whose argument throws adds nothing.
C3_PrintResult ==
    /\ \A a \in PrintCases : (Done /\ source = PrintSource1(a)) => SucceededWith(<<a.shown>>)
    /\ \A a, b \in PrintCases :
            (Done /\ source = PrintSource2(a, b)) => SucceededWith(<<a.shown \o " " \o b.shown>>)
    /\ (Done /\ source = SrcPrintOrder)
            => SucceededWith(<<"f", "g", "1 2", "g", "g", "f", "2 1 x">>)
    /\ (Done /\ source = SrcDivisionByZero)
            => FailedWith("RuntimeError") /\ output = <<"before">>

\* C3: each executed print statement evaluates its arguments left to right
\* and appends exactly one entry, the stringifications joined by a single
\* space; on success run returns the entries in the order of execution, and
\* nothing else adds to or removes from the list.
C3_Print == []C3_PrintResult /\ [][C3_PrintStep]_vars

\* the run of the program that prints from inside the arguments of its print
\* statements has returned its seven entries
C3_Witness == source = SrcPrintOrder /\ Done /\ result[1].success /\ Len(result[1].output) = 7

\* the top-level function declarations of the parsed program
TopLevelFunctions ==
    {ast[1].body[i] : i \in {j \in 1..Len(ast[1].body) : ast[1].body[j].type = "FunctionDeclaration"}}
\* some call in the program names a top-level function and has another number
\* of arguments than the function has parameters
HasArityMismatch ==
    /\ ast # <<>>
    /\ \E n \in Descendants(ast[1]) :
        /\ n.type = "CallExpression"
        /\ \E d \in TopLevelFunctions : d.name = n.callee /\ Len(d.params) # Len(n.arguments)

\* C4: when some call to a top-level function has the wrong number of
\* arguments, the run never executes a statement and produces no output, and
\* it ends with a Semantic Error; in the generated programs, whose only defect
\* is that call, the error is the wrong-argument-count one wherever the call
\* stands, and the programs whose counts agree pass analysis and start
\* executing.
C4_Arity ==
    /\ HasArityMismatch
        => /\ phase # "execute"
           /\ NothingExecuted
           /\ Done => FailedWith("SemanticError")
    /\ \A p, k \in 0..MaxParams : \A place \in ArityPlaces :
        (Done /\ source = ArityCallSource(p, k, place))
            => IF p # k
               THEN FailedWithKey("SemanticError", "WRONG_ARG_COUNT") /\ NothingExecuted
               ELSE IF place = "before"
               THEN FailedWithKey("RuntimeError", "UNDEFINED_FUNCTION") /\ pc = 1
               ELSE SucceededWith(<<"p">>)

\* the run of the program that prints and then calls f, declared with two
\* parameters, with one argument has failed at analysis
C4_Witness ==
    /\ source = ArityCallSource(2, 1, "after")
    /\ HasArityMismatch
    /\ FailedWithKey("SemanticError", "WRONG_ARG_COUNT")

\* a letter, a digit or an underscore
IsWordChar(c) == c \in LowerLetters \cup UpperLetters \cup {"_"} \cup {DigitChars[i] : i \in 1..10}
\* c with an ASCII capital replaced by its small letter
FoldASCII(c) == IF c \in UpperLetters THEN UpperToLower[c] ELSE c
\* the characters of a keyword stand in the source after position pos, up to
\* the case of ASCII letters
TextAt(text, pos) ==
    /\ pos + Len(text) <= Len(source)
    /\ \A i \in 1..Len(text) : FoldASCII(source[pos + i]) = FoldASCII(text[i])
RECURSIVE WordEnd(_)
\* the end of the maximal run of identifier characters that starts after pos
WordEnd(pos) == IF pos < Len(source) /\ IsWordChar(source[pos + 1]) THEN WordEnd(pos + 1) ELSE pos
\* at the token start pos a plain keyword's text is followed by an identifier
\* character
RunsOn(pos) ==
    \E text \in PlainKeywords :
        /\ TextAt(text, pos)
        /\ pos + Len(text) < Len(source)
        /\ IsWordChar(source[pos + Len(text) + 1])
\* the number of words of a text whose words are separated by single spaces
Words(text) == 1 + Cardinality({i \in 1..Len(text) : text[i] = " "})

\* C5, the steps: at a token start where a plain keyword's text runs on into
\* an identifier character, the lexer's step emits one IDENTIFIER token whose
\* lexeme is the whole maximal word that starts there.
C5_BoundaryStep ==
    (phase = "lex" /\ RunsOn(current))
        => /\ Len(tokens') = Len(tokens) + 1
           /\ SubSeq(tokens', 1, Len(tokens)) = tokens
           /\ tokens'[Len(tokens')].type = "IDENTIFIER"
           /\ tokens'[Len(tokens')].lexeme = Str(SubSeq(source, current + 1, WordEnd(current)))
           /\ current' = WordEnd(current)

\* C5, the results: a keyword's text with an identifier character appended
\* is tokenised as identifiers only, one for each of its words; names that
\* begin with the letters of a keyword are variables like any other.
C5_BoundaryResult ==
    /\ \A text \in PlainKeywords : \A c \in BoundaryChars :
        (Tokenized /\ source = text \o <<c>>)
            => TokenTypes = [i \in 1..Words(text) |-> "IDENTIFIER"] \o <<"EOF">>
    /\ (Done /\ source = SrcKeywordPrefixNames) => SucceededWith(<<"1 2 3">>)

\* C5: a keyword's text followed by an identifier character is not emitted as
\* the keyword; the whole maximal word is one identifier.
C5_KeywordBoundary == []C5_BoundaryResult /\ [][C5_BoundaryStep]_vars

\* the lexer has emitted the identifier SACHin of the program whose variables
\* begin with the letters of keywords
C5_Witness ==
    /\ source = SrcKeywordPrefixNames
    /\ phase = "lex"
    /\ tokens # <<>>
    /\ tokens[Len(tokens)].type = "IDENTIFIER"
    /\ tokens[Len(tokens)].lexeme = "SACHin"

KeywordTypes == {Keywords[i].type : i \in 1..Len(Keywords)}
\* the keywords whose text stands at pos up to the case of ASCII letters and
\* that satisfy the boundary rule there
Candidates(pos) ==
    {i \in 1..Len(Keywords) :
        LET text == Keywords[i].text
        IN  /\ TextAt(text, pos)
            /\ \/ text[Len(text)] \in {"!", ":"}
               \/ pos + Len(text) = Len(source)
               \/ ~IsWordChar(source[pos + Len(text) + 1])}
\* the longest of them
Longest(pos) ==
    CHOOSE i \in Candidates(pos) :
        \A j \in Candidates(pos) : Len(Keywords[j].text) <= Len(Keywords[i].text)

\* C6: at each token start the lexer emits the longest keyword whose text
\* stands there under ASCII case folding and satisfies the boundary rule,
\* consuming exactly its characters; where no keyword stands in that sense,
\* the token it emits is not a keyword.
C6_LongestMatchStep ==
    phase = "lex" =>
        IF Candidates(current) # {}
        THEN /\ tokens' = Append(tokens, tokens'[Len(tokens')])
             /\ tokens'[Len(tokens')].type = Keywords[Longest(current)].type
             /\ current' = current + Len(Keywords[Longest(current)].text)
        ELSE tokens' # tokens => tokens'[Len(tokens')].type \notin KeywordTypes
C6_LongestMatch == [][C6_LongestMatchStep]_vars

IsLiteral(node, k) == node.type = "Literal" /\ node.value = NumV(k, 1)
IsBinary(node, op) == node.type = "BinaryExpression" /\ node.operator = op.lexeme
\* the expression of the program's first statement, a print of one argument
PrintedExpression == ast[1].body[1].expressions[1]
\* x op1 (y op2 z)
NestsRight(node, op1, op2, x, y, z) ==
    /\ IsBinary(node, op1)
    /\ IsLiteral(node.left, x)
    /\ IsBinary(node.right, op2)
    /\ IsLiteral(node.right.left, y)
    /\ IsLiteral(node.right.right, z)
\* (x op1 y) op2 z
NestsLeft(node, op1, op2, x, y, z) ==
    /\ IsBinary(node, op2)
    /\ IsBinary(node.left, op1)
    /\ IsLiteral(node.left.left, x)
    /\ IsLiteral(node.left.right, y)
    /\ IsLiteral(node.right, z)
\* the decimal text of an integer
IntToString(k) == IF k < 0 THEN "-" \o NatToString(0 - k) ELSE NatToString(k)
\* the value of a form by the rules of arithmetic
ArithmeticValue(form, a, b, c) ==
    CASE form = "a + b * c" -> a + (b * c)
      [] form = "(a + b) * c" -> (a + b) * c
      [] form = "a - b - c" -> (a - b) - c
      [] form = "a - (b - c)" -> a - (b - c)

\* C7: in 7 op1 2 op2 1 the second operator takes the middle operand when
\* its level is higher than the first operator's, and the first operator
\* takes it otherwise (lower level, or the same level: left association);
\* a + b * c and a - b - c evaluate to a + (b * c) and (a - b) - c, and the
\* parenthesised forms (a + b) * c and a - (b - c) evaluate as written.
C7_Precedence ==
    /\ \A op1, op2 \in BinaryOperators :
        (ast # <<>> /\ source = OperatorPairSource(op1, op2))
            => IF op2.level > op1.level
               THEN NestsRight(PrintedExpression, op1, op2, 7, 2, 1)
               ELSE NestsLeft(PrintedExpression, op1, op2, 7, 2, 1)
    /\ \A form \in ArithmeticForms : \A a, b, c \in Operands :
        (Done /\ source = ArithmeticSource(form, a, b, c))
            => SucceededWith(<<IntToString(ArithmeticValue(form, a, b, c))>>)

\* the run of 0 - (1 - 2), whose value differs from that of 0 - 1 - 2, has
\* printed it
C7_Witness ==
    /\ source = ArithmeticSource("a - (b - c)", 0, 1, 2)
    /\ SucceededWith(<<"1">>)
    /\ PrintedExpression.right.type = "Grouping"

\* C8: an if statement whose condition is unit or false runs its alternate,
\* and does nothing when it has none; for every other value, the numbers
\* from 0 on, the empty string, a function and what a function returns, it
\* runs its consequent; !v is true for unit and false and false for the
\* other values, and !!v the opposite.
C8_Truthiness ==
    \A case \in TruthCases :
        (Done /\ source = TruthSource(case))
            => IF case.falsy
               THEN SucceededWith(<<"F", "sach galat">>)
               ELSE SucceededWith(<<"T", "galat sach", "only">>)

\* the run whose condition is the number 0 has taken the consequents
C8_Witness ==
    /\ source = TruthSource([text |-> NumberText(0), falsy |-> FALSE])
    /\ SucceededWith(<<"T", "galat sach", "only">>)

\* C9: the body of a function reads the variables of the environment its
\* declaration was executed in, with the values they have when it is called:
\* an assignment made after the declaration is seen; a local of the caller is
\* not (the callee reads the global of that name, and fails when only the
\* caller has the name); a function made inside a call keeps that call's
\* environment after the call has returned, one environment for each making
\* call, and each call of it gets a fresh environment below the captured one.
C9_Closure ==
    /\ \A i \in 1..Len(funs) : funs[i].closure \in 1..Len(envs)
    /\ (Done /\ source = SrcCallTimeValue) => SucceededWith(<<"2">>)
    /\ (Done /\ source = SrcCallerScope)
        => /\ SucceededWith(<<"1">>)
           /\ Len(envs) = 3
           /\ envs[2].parent = 1 /\ envs[2].values.y = NumV(5, 1)
           /\ envs[3].parent = 1
    /\ (Done /\ source = SrcCallerLocal) => FailedWithKey("RuntimeError", "UNDEFINED_VARIABLE")
    /\ (Done /\ source = SrcCounter)
        => /\ SucceededWith(<<"1 2 1">>)
           /\ funs[2].closure = 2 /\ funs[3].closure = 3
           /\ envs[2].values.n = NumV(2, 1) /\ envs[3].values.n = NumV(1, 1)
           /\ Len(envs) = 6
           /\ envs[4].parent = 2 /\ envs[5].parent = 2 /\ envs[6].parent = 3

\* the run whose caller has a local y has printed the global y that the
\* callee captured
C9_Witness ==
    /\ source = SrcCallerScope
    /\ SucceededWith(<<"1">>)
    /\ envs[2].values.y = NumV(5, 1)

\* C10: after a call whose body declares x, a call with a parameter x that
\* the body assigns, and a call inside which a nested call declares x, the
\* global x and the enclosing function's x have the values they had before:
\* the program prints the local B, the parameter B + 1, the enclosing 7 and
\* the global A, and the global environment still binds x to A.
C10_ScopeIsolation ==
    \A A, B \in Operands :
        (Done /\ source = ScopeSource(A, B))
            => /\ SucceededWith(<<NatToString(B), NatToString(B + 1), "7", NatToString(A)>>)
               /\ envs[1].values.x = NumV(A, 1)

\* the run with the global x = 1 and the local and parameter x = 2 has
\* printed its four lines
C10_Witness ==
    /\ source = ScopeSource(1, 2)
    /\ SucceededWith(<<"2", "3", "7", "1">>)
    /\ envs[1].values.x = NumV(1, 1)

\* C11: a division or remainder of a number by the number 0, however the 0
\* is written and whichever statement holds it, ends the run with the
\* Runtime Error of division by zero carrying the line of the expression;
\* the statement holding it adds no output line (the output is what was
\* printed before it) and no later statement runs.
C11_DivisionByZero ==
    \A op \in DivisionOperators : \A n \in Operands : \A zero \in ZeroTexts :
        \A place \in DivisionPlaces :
            (Done /\ source = DivisionSource(op, n, zero, place))
                => /\ FailedWithKey("RuntimeError", "DIVISION_BY_ZERO")
                   /\ result[1].errorObject.line = IF place = "return" THEN 4 ELSE 3
                   /\ output = IF place = "return" THEN <<"before", "f">> ELSE <<"before">>

\* the run of the program that prints "x", 2 % 0 has failed after its first
\* statement
C11_Witness ==
    /\ source = DivisionSource("%", 2, <<"0">>, "print")
    /\ FailedWithKey("RuntimeError", "DIVISION_BY_ZERO")
    /\ output = <<"before">>

\* C12: l + r is the concatenation of the two stringifications when l or r is
\* a string, the sum when both are numbers, and a Runtime Error for every
\* other pair of a number, a boolean, unit and a function.
C12_Plus ==
    \A l, r \in PlusOperands :
        (Done /\ source = PlusSource(l, r))
            => IF l.kind = "string" \/ r.kind = "string"
               THEN SucceededWith(<<l.shown \o r.shown>>)
               ELSE IF l.kind = "number" /\ r.kind = "number"
               THEN SucceededWith(<<NatToString(l.number + r.number)>>)
               ELSE FailedWithKey("RuntimeError", "INVALID_OPERAND") /\ output = <<>>

\* the run of "Count: " + 2 has printed Count: 2
C12_Witness ==
    /\ \E l, r \in PlusOperands :
        /\ l.shown = "Count: " /\ r.kind = "number" /\ r.number = 2
        /\ source = PlusSource(l, r)
    /\ SucceededWith(<<"Count: 2">>)

RECURSIVE LoopOutput(_, _)
\* what the loop of LoopSource prints from iteration i on when it stops
\* after the iterations 0 .. n - 1 (the condition prints c, the body t), and
\* what it prints when it is stopped by the limit before iteration n
LoopOutput(i, n) ==
    IF i >= n THEN <<"c">> ELSE <<"c", NatToString(i)>> \o LoopOutput(i + 1, n)
\* the environments of the heap that a body of the loop has run in
BodyEnvironments == {e \in 1..Len(envs) : "t" \in DOMAIN envs[e].values}
\* the loop limit in force: the one asked for, 100 000 when none is
LimitInForce == IF options.maxIterations > 0 THEN options.maxIterations ELSE 100000

\* C13: a loop whose condition holds k times evaluates the condition k + 1
\* times, before each body and once more, runs the body k times, each time
\* in a new environment below the statement's, and ends normally; when k is
\* more than the loop limit in force, the body runs only limit times and the
\* next truthy condition raises the Runtime Error of the loop limit.
C13_WhileLoop ==
    \A k \in 0..MaxLoops :
        (Done /\ source = LoopSource(k))
            => IF k <= LimitInForce
               THEN /\ SucceededWith(LoopOutput(0, k) \o <<"end">>)
                    /\ Cardinality(BodyEnvironments) = k
                    /\ \A e \in BodyEnvironments : envs[e].parent = 1
                    /\ {envs[e].values.t : e \in BodyEnvironments} = {NumV(i, 1) : i \in 0..(k - 1)}
               ELSE /\ FailedWithKey("RuntimeError", "LOOP_LIMIT_EXCEEDED")
                    /\ output = LoopOutput(0, LimitInForce)

\* the loop semantics alone, under the options of the constructor
C13_WhileLoopDefault == options.maxIterations = 0 => C13_WhileLoop

\* C14: a reference to a name that is declared nowhere, or only as another
\* function's parameter, is rejected with a Semantic Error and nothing is
\* executed, wherever the reference stands: in a print, deep in an
\* expression, in a branch that would not run, in a function that is not
\* called, as an argument, as a condition, as a callee; so is a variable read
\* before its declaration or after the block that declared it.  A global
\* variable and a function name pass the analyser in all these places.
C14_UndefinedReference ==
    /\ \A place \in ReferencePlaces \cup CallPlaces :
        /\ \A name \in UndefinedNames :
            (Done /\ source = ReferenceSource(name, place))
                => /\ FailedWithKey("SemanticError",
                        IF place \in CallPlaces THEN "UNDEFINED_FUNCTION" ELSE "UNDEFINED_VARIABLE")
                   /\ result[1].errorObject.arg = name[1]
                   /\ NothingExecuted
        /\ \A name \in DefinedNames :
            (Done /\ source = ReferenceSource(name, place))
                => ~FailedWith("SemanticError") /\ pc >= 1 /\ output # <<>>
    /\ \A src \in OutOfScopeSources :
        (Done /\ source = src)
            => FailedWithKey("SemanticError", "UNDEFINED_VARIABLE") /\ NothingExecuted

\* the run of the program that names the undeclared y only in a branch that
\* would not be taken has failed at analysis
C14_Witness ==
    /\ source = ReferenceSource(<<"y">>, "branch")
    /\ FailedWithKey("SemanticError", "UNDEFINED_VARIABLE")
    /\ NothingExecuted

RECURSIVE OutsideFunctions(_)
\* the node and the nodes below it that are not inside a function declaration
OutsideFunctions(node) ==
    IF node.type = "FunctionDeclaration" THEN {node}
    ELSE {node} \cup UNION {OutsideFunctions(Children(node)[i]) : i \in 1..Len(Children(node))}
\* the analyser was called on the program and has accepted it
Accepted == ~options.skipAnalysis /\ (phase = "execute" \/ (Done /\ pc >= 1))

\* the part of C15 about return: a program the analyser accepts has no
\* Return node outside a function body; a return in a block in a loop in an
\* if of a function body is accepted and returns from the call; a return at
\* top level, after a function declaration or inside a loop, is rejected with
\* a Semantic Error before anything is executed.
C15_ReturnPlacement ==
    /\ Accepted => \A n \in OutsideFunctions(ast[1]) : n.type # "ReturnStatement"
    /\ (Done /\ ~options.skipAnalysis /\ source \in {SrcReturnAfterFunction, SrcReturnInLoop, SrcTopLevelReturn})
        => FailedWithKey("SemanticError", "RETURN_OUTSIDE_FUNCTION") /\ NothingExecuted
    /\ (Done /\ source = SrcReturnNested) => SucceededWith(<<"deep flat">>)

\* C15: the analyser rejects with a Semantic Error a return outside every
\* function body and a break outside every loop body, before anything is
\* executed, and accepts a return nested in the blocks, ifs and loops of a
\* function and a break inside a loop.
C15_Placement ==
    /\ C15_ReturnPlacement
    /\ (Done /\ source \in {SrcBreakOutsideLoop, SrcBreakInFunction})
        => FailedWith("SemanticError") /\ NothingExecuted
    /\ (Done /\ source = SrcBreakInLoop) => ~FailedWith("ParserError")

\* C16: when the analysis is skipped, a return executed outside every call
\* ends the run with a failure whose error is a Runtime Error, and a return
\* inside a call is caught by the call.
C16_UnwindStaysInside ==
    /\ (Done /\ options.skipAnalysis /\ source \in {SrcTopLevelReturn, SrcReturnAfterFunction})
        => FailedWith("RuntimeError")
    /\ (Done /\ options.skipAnalysis /\ source = SrcReturnNested) => SucceededWith(<<"deep flat">>)
    /\ Done => (result[1].success \/ result[1].errorObject.name # "ReturnValue")

\* C17: the literal of a string token is the text between the quotes with
\* each escape sequence replaced once, from left to right, by its character:
\* an escaped quote does not end the string, and the character after an
\* escaped backslash is an ordinary character.
C17_StringEscapes ==
    (Tokenized /\ source # <<>> /\ source[1] = QUOTE)
        => /\ \A units \in UnitSequences :
                source = StringSource(units)
                    => /\ TokenTypes = <<"STRING", "EOF">>
                       /\ tokens[1].literal = StrV(Str(UnitsValue(units)))
           /\ source = SrcTabAndReturn
                => tokens[1].literal = StrV(Str(<<"a", TAB, "b", CR, "c">>))

\* the same for the literals in which no escaped backslash stands before
\* one of the letters of an escape
C17_StringEscapesApart ==
    (Tokenized /\ source # <<>> /\ source[1] = QUOTE)
        => \A units \in UnitSequences :
            (/\ source = StringSource(units)
             /\ ~\E i \in 1..(Len(units) - 1) :
                    units[i].text = <<BACKSLASH, BACKSLASH>> /\ units[i + 1].text = <<"n">>)
                => /\ TokenTypes = <<"STRING", "EOF">>
                   /\ tokens[1].literal = StrV(Str(UnitsValue(units)))

\* the positions of the newlines among the first pos characters of the source
NewlinesBefore(pos) == {i \in 1..pos : source[i] = NL}
\* the 1-based line and column of the place after the first pos characters
LineAt(pos) == 1 + Cardinality(NewlinesBefore(pos))
ColumnAt(pos) ==
    LET last == IF NewlinesBefore(pos) = {} THEN 0
                ELSE CHOOSE i \in NewlinesBefore(pos) : \A j \in NewlinesBefore(pos) : j <= i
    IN  pos - last + 1
\* a backslash stands directly before a newline somewhere in the source
HasEscapedNewline ==
    \E i \in 1..(Len(source) - 1) : source[i] = BACKSLASH /\ source[i + 1] = NL
\* EOF is the last token and only the last
EOFOnlyLast == \A i \in 1..(Len(tokens) - 1) : tokens[i].type # "EOF"
\* an iteration of the loop of tokenize consumes at least one character or
\* ends the scan, and a token it adds goes to the end of the list and is the
\* text it consumed
ScanStep ==
    phase = "lex"
        => /\ current' > current \/ phase' # "lex"
           /\ \/ tokens' = tokens
              \/ /\ Len(tokens') = Len(tokens) + 1
                 /\ SubSeq(tokens', 1, Len(tokens)) = tokens
                 /\ \/ phase' = "parse" /\ tokens'[Len(tokens')].type = "EOF"
                    \/ /\ phase' = "lex"
                       /\ tokens'[Len(tokens')].lexeme = Str(Slice(current, current'))
\* what tokenize hands back: the token list ending with EOF at the end of the
\* source, or a lexer error at the character it stopped at (the opening
\* quote for a string without end)
TokenizeResult ==
    /\ phase = "lex" => current <= Len(source) /\ result = <<>>
    /\ phase # "lex" => Tokenized \/ FailedWith("LexerError")
    /\ Tokenized
        => /\ EOFOnlyLast
           /\ tokens[Len(tokens)].line = LineAt(Len(source))
           /\ tokens[Len(tokens)].column = ColumnAt(Len(source))
    /\ FailedWith("LexerError")
        => LET error == result[1].errorObject
           IN  /\ ~Tokenized
               /\ error.line = LineAt(start)
               /\ error.column = ColumnAt(start)
               /\ \/ /\ error.key = "UNEXPECTED_CHARACTER"
                     /\ error.arg = source[start + 1]
                     /\ error.arg # QUOTE /\ ~isAlphaNumeric(error.arg)
                  \/ /\ error.key = "UNTERMINATED_STRING"
                     /\ source[start + 1] = QUOTE

\* C18: every iteration of the loop of tokenize consumes at least one
\* character or ends the scan, so tokenize ends on every source; it ends
\* either with the ordered token list whose last token, and no other, is EOF
\* at the line and column of the end of the source, or with a Lexer Error at
\* the line and column of the offending character.
C18_Tokenize ==
    /\ []TokenizeResult
    /\ [][ScanStep]_vars

\* the same for the sources in which no backslash stands directly before a
\* newline
C18_TokenizePlain ==
    /\ [](~HasEscapedNewline => TokenizeResult)
    /\ [][ScanStep]_vars

\* the line counter of the lexer is 1 plus the number of newlines consumed
LineCounted == (phase = "lex" \/ Tokenized) => line = LineAt(current)
\* a token added by the scan carries 1 plus the number of newlines consumed
\* when it is added
TokenLineStep ==
    (phase = "lex" /\ Len(tokens') > Len(tokens))
        => tokens'[Len(tokens')].line = LineAt(current')

\* C19: at every point of the scan the line counter is 1 plus the number of
\* newlines consumed so far, wherever the newline stood (whitespace, the end
\* of a comment, inside a string literal, directly after a backslash), and
\* every token, EOF included, carries 1 plus the number of newlines before it.
C19_LineCounting == []LineCounted /\ [][TokenLineStep]_vars

\* the same for the sources in which no backslash stands directly before a
\* newline
C19_LineCountingPlain ==
    /\ [](~HasEscapedNewline => LineCounted)
    /\ [][~HasEscapedNewline => TokenLineStep]_vars

\* the line of the i-th token of the expression of SpreadSource(form, gaps),
\* which starts on line 2
SpreadLine(gaps, i) == 2 + Cardinality({j \in 1..(i - 1) : gaps[j] = NL})
\* the node of that expression when every node carries the line of the first
\* token of its construct
SpreadNode(form, gaps) ==
    CASE form = "binary" ->
            BinaryExpression("/", Literal(NumV(1, 1), SpreadLine(gaps, 1)),
                             Literal(NumV(0, 1), SpreadLine(gaps, 3)), SpreadLine(gaps, 1))
      [] form = "unary" ->
            UnaryExpression("-", Literal(StrV("s"), SpreadLine(gaps, 2)), SpreadLine(gaps, 1))
      [] form = "call" ->
            CallExpression("f", <<Literal(NumV(1, 1), SpreadLine(gaps, 3))>>, SpreadLine(gaps, 1))
\* the parser has handed the AST over
Parsed == ast # <<>>

\* C20: every node of the AST carries the line of the first token of its
\* construct, also a Binary, Unary or Call node whose tokens stand on several
\* lines, and the error raised for such an expression (division by zero,
\* negation of a string, call of an undeclared function) reports the line on
\* which the expression starts.
C20_NodeLines ==
    \A form \in SpreadForms : \A gaps \in Gaps(form) :
        source = SpreadSource(form, gaps)
            => /\ Parsed => ast[1].body = <<PrintStatement(<<SpreadNode(form, gaps)>>, 2)>>
               /\ Done => ~result[1].success /\ result[1].errorObject.line = 2

\* the same for the expressions written on one line
C20_NodeLinesOnOneLine ==
    \A form \in SpreadForms : \A gaps \in Gaps(form) :
        (source = SpreadSource(form, gaps) /\ \A i \in DOMAIN gaps : gaps[i] = " ")
            => /\ Parsed => ast[1].body = <<PrintStatement(<<SpreadNode(form, gaps)>>, 2)>>
               /\ Done => ~result[1].success /\ result[1].errorObject.line = 2

\* the nodes of the three kinds carry the line of the last token of their
\* construct, and the error reports that line
C20_NodeLinesAtEnd ==
    \A form \in SpreadForms : \A gaps \in Gaps(form) :
        source = SpreadSource(form, gaps)
            => LET last == SpreadLine(gaps, Len(SpreadTokens(form)))
               IN  /\ Parsed => /\ ast[1].body[1].line = 2
                                /\ ast[1].body[1].expressions[1].line = last
                   /\ Done => ~result[1].success /\ result[1].errorObject.line = last

\* C21: x = y = e is the assignment to x of the assignment to y of e; it
\* evaluates e once (f prints once), writes the value to the nearest binding
\* of y (the one of the block) and then of x (the global one) and yields the
\* value; when x is unbound the write to y has happened before the run
\* fails; an "=" after anything but a bare identifier is a Parser Error.
C21_Assignment ==
    /\ (Parsed /\ source = SrcAssignmentChain)
        => ast[1].body[4].consequents[1].statements[2].expressions[1]
            = Assignment("x", Assignment("y", CallExpression("f", <<>>, 8), 8), 8)
    /\ (Done /\ source = SrcAssignmentChain)
        => SucceededWith(<<"f", "7", "7 7", "7 2">>)
    /\ (Done /\ source = SrcAssignmentOrder)
        => /\ FailedWithKey("RuntimeError", "UNDEFINED_VARIABLE")
           /\ result[1].errorObject.arg = "x"
           /\ envs[1].values = [y |-> NumV(5, 1)]
    /\ \A target \in AssignmentTargets :
        (Done /\ source = AssignmentTargetSource(target))
            => /\ FailedWithKey("ParserError", "INVALID_ASSIGNMENT_TARGET")
               /\ result[1].errorObject.line = 4
               /\ ast = <<>>

\* the run of the chained assignment has ended with the four lines printed
C21_Witness ==
    /\ source = SrcAssignmentChain
    /\ SucceededWith(<<"f", "7", "7 7", "7 2">>)

\* C22: the break statement in the body of the inner loop ends that loop
\* only: the print after it and the third iteration of the inner loop are
\* skipped, the outer loop goes on with its own statements and its second
\* iteration, the environment of before the loops is the current one again
\* and the statement after the loops is executed.
C22_Break ==
    (Done /\ source = SrcBreakNested)
        => /\ SucceededWith(<<"1 1", "outer 1", "2 1", "outer 2", "end">>)
           /\ environment = 1

\* C23, as the code has it: a call through a function-valued variable or
\* parameter passes the analyser whatever its argument count; at runtime the
\* call with as many arguments as parameters binds them by position and runs
\* the body, and the call with fewer (or more) arguments ends the run with
\* the Runtime Error of the wrong argument count on the line of the call,
\* without executing the body.
C23_IndirectCall ==
    \A route \in IndirectRoutes : \A k \in 0..(MaxParams + 1) :
        (Done /\ source = IndirectSource(route, k))
            => IF k = 2
               THEN SucceededWith(<<"before", "in 1 2", "1", "after">>)
               ELSE /\ FailedWithKey("RuntimeError", "WRONG_ARG_COUNT")
                    /\ result[1].errorObject.line = IF route = "variable" THEN 6 ELSE 4
                    /\ output = <<"before">>

\* the run of the call of g with one argument has failed at the call
C23_Witness ==
    /\ source = IndirectSource("variable", 1)
    /\ FailedWithKey("RuntimeError", "WRONG_ARG_COUNT")
    /\ output = <<"before">>

\* C23 as stated: the indirect call with fewer arguments than parameters is
\* executed, the parameters without an argument being unit
C23_IndirectCall_AsStated ==
    \A route \in IndirectRoutes : \A k \in 0..1 :
        (Done /\ source = IndirectSource(route, k))
            => SucceededWith(<<"before",
                               IF k = 0 THEN "in khaali khaali" ELSE "in 1 khaali",
                               "1", "after">>)

\* C24: the analyser checks the argument count of a call only when the callee
\* is a known function at the call site; a callee that the scope stack
\* resolves to a variable or a parameter, also one that has the name of a
\* top-level function, gets no arity error from the analyser and has its
\* count checked when the call is executed (against the function passed).
C24_StaticArity ==
    /\ \A route \in IndirectRoutes : \A k \in 0..(MaxParams + 1) :
        (Done /\ source = IndirectSource(route, k)) => ~FailedWith("SemanticError")
    /\ \A k \in 0..MaxParams :
        (Done /\ source = ShadowSource(k))
            => IF k = 1 THEN SucceededWith(<<"before", "1">>)
               ELSE FailedWithKey("RuntimeError", "WRONG_ARG_COUNT") /\ output = <<"before">>

\* what the analyser does for the parameter f that has the name of the
\* top-level function f of two parameters: the count of f(..) is checked
\* against the top-level function
C24_FunctionTableFirst ==
    \A k \in 0..MaxParams :
        (Done /\ source = ShadowSource(k))
            => IF k = 2
               THEN FailedWithKey("RuntimeError", "WRONG_ARG_COUNT") /\ output = <<"before">>
               ELSE FailedWithKey("SemanticError", "WRONG_ARG_COUNT") /\ NothingExecuted

\* C25: l && r and l || r evaluate the left operand and then the right one,
\* whatever the left one is (both calls print, L before R), and yield the
\* boolean that combines the truthiness of the two values.
C25_BothOperands ==
    \A op \in LogicalOperators : \A l, r \in LogicalOperands :
        (Done /\ source = LogicalSource(op, l, r))
            => LET both == ~l.falsy /\ ~r.falsy
                   either == ~l.falsy \/ ~r.falsy
                   value == IF op = <<"&", "&">> THEN both ELSE either
               IN  SucceededWith(<<"L", "R", IF value THEN "sach" ELSE "galat">>)

\* the run of galat && 0 has printed L, R and galat
C25_Witness ==
    /\ \E l, r \in LogicalOperands :
        /\ l.text = <<"g", "a", "l", "a", "t">> /\ r.text = <<"0">>
        /\ source = LogicalSource(<<"&", "&">>, l, r)
    /\ SucceededWith(<<"L", "R", "galat">>)

\* C26: a bare block has one scope of its own in the analyser as in the
\* evaluator, as the body of an if branch has: a declaration in it may
\* repeat a name of the enclosing scope, the program then prints the inner
\* value and afterwards the unchanged outer one, and a name declared in the
\* block is unknown after it to the analyser (a Semantic Error before any
\* execution) as it is to the evaluator.
C26_BlockScopes ==
    /\ (Done /\ source \in {SrcBlockRedeclare, SrcIfRedeclare}) => SucceededWith(<<"2", "1">>)
    /\ (Done /\ source = SrcBlockLeak)
        => IF options.skipAnalysis
           THEN FailedWithKey("RuntimeError", "UNDEFINED_VARIABLE") /\ output = <<"before">>
           ELSE FailedWithKey("SemanticError", "UNDEFINED_VARIABLE") /\ NothingExecuted

\* the evaluator alone (analysis skipped) gives the bare block its scope, and
\* the two stages agree on the body of an if branch
C26_EvaluatorBlockScopes ==
    /\ (Done /\ options.skipAnalysis /\ source = SrcBlockRedeclare) => SucceededWith(<<"2", "1">>)
    /\ (Done /\ options.skipAnalysis /\ source = SrcBlockLeak)
        => FailedWithKey("RuntimeError", "UNDEFINED_VARIABLE") /\ output = <<"before">>
    /\ (Done /\ source = SrcIfRedeclare) => SucceededWith(<<"2", "1">>)

\* the analyser gives the bare block no scope: the redeclaration is rejected
\* and the name declared in the block passes the analysis after it
C26_AnalyserBlockScopes ==
    /\ (Done /\ ~options.skipAnalysis /\ source = SrcBlockRedeclare)
        => FailedWithKey("SemanticError", "ALREADY_DEFINED") /\ NothingExecuted
    /\ (Done /\ ~options.skipAnalysis /\ source = SrcBlockLeak)
        => FailedWithKey("RuntimeError", "UNDEFINED_VARIABLE") /\ output = <<"before">>

\* what a result object says: the output lines of a success, or the class,
\* message and line of the error of a failure
Outcome(r) ==
    IF r.success THEN <<"success", r.output>>
    ELSE <<r.errorObject.name, r.errorObject.key, r.errorObject.arg, r.errorObject.line>>
\* the outcome of run(src) as the first run of an instance
FirstOutcome(opts, src) ==
    CASE src = SrcDeclares -> <<"success", <<"A sach">>>>
      [] src = SrcCallsEarly -> <<"RuntimeError", "UNDEFINED_FUNCTION", "f", 2>>
      [] src = SrcReadsX ->
            IF opts.skipAnalysis THEN <<"RuntimeError", "UNDEFINED_VARIABLE", "x", 2>>
            ELSE <<"SemanticError", "UNDEFINED_VARIABLE", "x", 2>>
      [] src = SrcStrayAt -> <<"LexerError", "UNEXPECTED_CHARACTER", "@", 2>>

\* C27: whatever was run on the instance before, run(s) returns the outcome
\* (success, output lines, error) that it returns as the first run: nothing
\* bound in the global environment by an earlier run is visible.
C27_IndependentRuns == Done => Outcome(result[1]) = FirstOutcome(options, source)

\* the first run of every instance has the outcome of the table
C27_FirstRuns == (Done /\ Len(result) = 1) => Outcome(result[1]) = FirstOutcome(options, source)

\* after the run that declares f and x, the program that calls f before its
\* own declaration runs the earlier f, and with the analysis skipped the
\* program that reads x prints the earlier x
C27_GlobalsStay ==
    (Done /\ Len(result) = 2 /\ Outcome(result[2]) = <<"success", <<"A sach">>>>)
        => /\ source = SrcCallsEarly => Outcome(result[1]) = <<"success", <<"1">>>>
           /\ (source = SrcReadsX /\ options.skipAnalysis)
                => Outcome(result[1]) = <<"success", <<"1">>>>

\* the program has a block that is a statement of the program or of a block
HasBareBlock ==
    \E n \in Descendants(ast[1]) :
        /\ n.type \in {"Program", "Block"}
        /\ \E i \in 1..Len(Children(n)) : Children(n)[i].type = "Block"

\* C28: a program that the analyser has accepted runs on the fresh
\* interpreter without a Runtime Error for an undefined variable or an
\* undefined function: a name the analyser resolved is bound when the
\* evaluator reads, assigns or calls it.
C28_AnalyserSound ==
    Accepted
        => /\ ~FailedWithKey("RuntimeError", "UNDEFINED_VARIABLE")
           /\ ~FailedWithKey("RuntimeError", "UNDEFINED_FUNCTION")

\* where an accepted program does fail on a name: the undefined function is
\* a top-level function of the program (known to the analyser from its first
\* pass, not yet declared when the evaluator reaches the call), and the
\* undefined variable is met in a program with a bare block
C28_UnsoundOnlyByHoistingAndBlocks ==
    Accepted
        => /\ FailedWithKey("RuntimeError", "UNDEFINED_FUNCTION")
                => \E d \in TopLevelFunctions : d.name = result[1].errorObject.arg
           /\ FailedWithKey("RuntimeError", "UNDEFINED_VARIABLE") => HasBareBlock

\* the output of the programs with an inner function when they are executed
InnerFunctionOutput(src) == IF src = SrcInnerReturned THEN <<"5">> ELSE <<"7">>

\* C29: a function declared in a function body or in a block is known to the
\* analyser under its name from the declaration on, as it is to the
\* evaluator: the programs that declare an inner function and call it, or
\* return it and call the result, are accepted and executed.
C29_InnerFunctions ==
    \A src \in InnerFunctionSources :
        (Done /\ source = src) => SucceededWith(InnerFunctionOutput(src))

\* the evaluator alone (analysis skipped) executes the three programs
C29_InnerFunctionsEvaluated ==
    \A src \in InnerFunctionSources :
        (Done /\ options.skipAnalysis /\ source = src) => SucceededWith(InnerFunctionOutput(src))

\* the analyser rejects each of them at the first use of the inner name
C29_InnerFunctionsRejected ==
    \A src \in InnerFunctionSources :
        (Done /\ ~options.skipAnalysis /\ source = src)
            => /\ FailedWith("SemanticError")
               /\ result[1].errorObject.key
                    = IF src = SrcInnerReturned THEN "UNDEFINED_VARIABLE" ELSE "UNDEFINED_FUNCTION"
               /\ NothingExecuted

\* the names bound in the environment object e
Bound(e) == DOMAIN envs[e].values

\* C30: when a block, an if branch, a loop body or a call has ended, by its
\* last statement, by a return or by a runtime error, the current
\* environment is the one of before: between the statements of the program
\* and after execute it is the global environment, and after a call that a
\* return inside an if branch has ended it is the caller's (the declaration
\* after the call lands beside the caller's variable, the one after the
\* caller's block in the globals).
C30_EnvironmentRestored ==
    /\ environment = 1
    /\ (Done /\ source = SrcUnwindInCall)
        => /\ SucceededWith(<<"1 2">>)
           /\ Bound(1) = {"f", "t"}
           /\ \E e \in 2..Len(envs) : envs[e].parent = 1 /\ Bound(e) = {"r", "s"}
    /\ (Done /\ source = SrcErrorInCall)
        => /\ FailedWithKey("RuntimeError", "DIVISION_BY_ZERO")
           /\ Bound(1) = {"f"}

\* the run in which a return inside an if branch ended the call has ended
\* with four environments made (the caller's block, the call, the branch)
C30_Witness ==
    /\ source = SrcUnwindInCall
    /\ SucceededWith(<<"1 2">>)
    /\ Len(envs) = 4

====
